---- MODULE Spec2Model ----
(***************************************************************************)
(* arxiv_tool: the two-stage analysis pipeline (Quick-Filter, Deep-        *)
(* Analysis), the interactive Q&A engine and the HTTP handlers that drive  *)
(* them, over the file-per-record paper store.                             *)
(*                                                                         *)
(* The service is one asyncio event loop: a coroutine runs atomically from *)
(* one await to the next.  Every action below is one such segment.         *)
(*                                                                         *)
(* Encodings: Optional[x] is a sequence, <<>> for None and <<x>> for a     *)
(* value; Optional[bool] is_relevant is one of "None", "True", "False";    *)
(* texts are sequences of characters; relevance scores are integers.       *)
(***************************************************************************)
EXTENDS Integers, Sequences, FiniteSets, TLC

VARIABLES
    store,      \* data/papers/<id>.json : [Ids -> Optional Paper]
    config,     \* data/config.json
    runs,       \* process_papers invocations (asyncio tasks)
    asks,       \* ask / ask_stream requests in progress
    fetches,    \* fetch_latest invocations (background loop and manual /fetch)
    rechecks,   \* recheck_negative_keywords tasks created and not yet run
    boot,       \* the startup task check_pending_deep_analysis has not run yet
    ops         \* number of requests / tasks started so far

vars == <<store, config, runs, asks, fetches, rechecks, boot, ops>>

----------------------------------------------------------------------------
(* Bounds of the model *)

\* how many requests, sweeps and fetch cycles a behaviour starts
MaxOps == 2
\* most turns the walk over parent links collects before the model stops
\* following it
MaxWalk == 3
\* most deltas the model streams in one attempt
MaxChunks == 1

(* Program constants *)

\* max_retries of stage1_filter, _ask_question_with_retry, ask_custom_question_stream
max_retries == 3
\* relevance_score a negative keyword forces
NegScore == 1
\* clamp of update_relevance
ScoreLo == 0
ScoreHi == 10

Ids == {1, 2}
RunIds == {1, 2}
AskIds == {1, 2}
FetchIds == {1, 2}

None == <<>>
Some(x) == <<x>>

----------------------------------------------------------------------------
(* Texts *)

LowerOf == ("A" :> "a") @@ ("B" :> "b") @@ ("L" :> "l") @@ ("V" :> "v") @@
           ("R" :> "r") @@ ("T" :> "t") @@ ("H" :> "h") @@ ("I" :> "i") @@
           ("N" :> "n") @@ ("K" :> "k")

\* str.lower(), character by character
Lower(s) == [i \in 1..Len(s) |-> IF s[i] \in DOMAIN LowerOf THEN LowerOf[s[i]] ELSE s[i]]

\* Python's `sub in s`
Contains(sub, s) ==
    \E i \in 0..(Len(s) - Len(sub)) : SubSeq(s, i + 1, i + Len(sub)) = sub

\* what the paper source returns for an id (entry.title, preview text)
Title(id) == IF id = 1 THEN <<"V", "L">> ELSE <<"R", "o">>
PreviewText(id) == IF id = 1 THEN <<"a", "B">> ELSE <<"b", "o", "t">>
\* entry.summary, and what _fetch_html returns ("" when no HTML version exists)
Abstract(id) == IF id = 1 THEN <<"a">> ELSE <<"b", "o", "t">>
HtmlContent(id) == IF id = 1 THEN <<"B">> ELSE <<>>

\* negative keyword lists a user configures
NegKwLists == { <<>>,
                << <<"z">>, <<"L", " ", "a">> >>,
                << <<"b">>, <<"v", "l">> >> }

PresetQuestions == << <<"q", "1">>, <<"q", "2">> >>

----------------------------------------------------------------------------
(* models.py *)

QAPair(q, a, th, reasoning, parent) ==
    [question |-> q, answer |-> a, thinking |-> th,
     is_reasoning |-> reasoning, parent_qa_id |-> parent]

\* Paper(...) as fetch_latest / fetch_single_paper construct it
Paper(id) ==
    [id |-> id, title |-> Title(id), preview_text |-> PreviewText(id),
     abstract |-> Abstract(id), html_content |-> HtmlContent(id),
     is_relevant |-> "None", relevance_score |-> 0,
     extracted_keywords |-> <<>>, one_line_summary |-> <<>>,
     detailed_summary |-> <<>>, qa_pairs |-> <<>>,
     is_hidden |-> FALSE, is_starred |-> FALSE]

\* Python truthiness of Optional[bool]
Truthy(rel) == rel = "True"

\* Paper.to_dict: asdict turns the Paper and each QAPair of qa_pairs into a
\* dict of its fields
to_dict(p) ==
    [p EXCEPT !.qa_pairs =
        [k \in DOMAIN p.qa_pairs |->
            [question |-> p.qa_pairs[k].question, answer |-> p.qa_pairs[k].answer,
             thinking |-> p.qa_pairs[k].thinking,
             is_reasoning |-> p.qa_pairs[k].is_reasoning,
             parent_qa_id |-> p.qa_pairs[k].parent_qa_id]]]

\* json's encoding of bool and of Optional values: true, false, null
JsonBool(b) == IF b THEN "true" ELSE "false"
JsonOptBool(rel) ==
    IF rel = "None" THEN "null" ELSE IF rel = "True" THEN "true" ELSE "false"
JsonOpt(o) == IF o = None THEN [null |-> TRUE] ELSE [null |-> FALSE, value |-> o[1]]

\* json.dump(paper.to_dict(), f): the document written to <id>.json
json_dump(d) ==
    [d EXCEPT !.is_relevant = JsonOptBool(@),
              !.is_hidden = JsonBool(@), !.is_starred = JsonBool(@),
              !.qa_pairs = [k \in DOMAIN d.qa_pairs |->
                    [d.qa_pairs[k] EXCEPT !.thinking = JsonOpt(@),
                                          !.is_reasoning = JsonBool(@),
                                          !.parent_qa_id = JsonOpt(@)]]]

PyBool(j) == j = "true"
PyOptBool(j) == IF j = "null" THEN "None" ELSE IF j = "true" THEN "True" ELSE "False"
PyOpt(j) == IF j.null THEN None ELSE Some(j.value)

\* variant: a null is_relevant is read back as False
json_load_null_is_false(doc) ==
    [doc EXCEPT !.is_relevant = IF @ = "true" THEN "True" ELSE "False",
                !.is_hidden = PyBool(@), !.is_starred = PyBool(@),
                !.qa_pairs = [k \in DOMAIN doc.qa_pairs |->
                    [doc.qa_pairs[k] EXCEPT !.thinking = PyOpt(@),
                                            !.is_reasoning = PyBool(@),
                                            !.parent_qa_id = PyOpt(@)]]]

\* json.load(f): the dict read from <id>.json
json_load(doc) ==
    [doc EXCEPT !.is_relevant = PyOptBool(@),
                !.is_hidden = PyBool(@), !.is_starred = PyBool(@),
                !.qa_pairs = [k \in DOMAIN doc.qa_pairs |->
                    [doc.qa_pairs[k] EXCEPT !.thinking = PyOpt(@),
                                            !.is_reasoning = PyBool(@),
                                            !.parent_qa_id = PyOpt(@)]]]

\* Paper.from_dict: QAPair(**qa) for each dict of a non-empty qa_pairs, then
\* Paper(**data)
from_dict(data) ==
    IF data.qa_pairs # <<>>
    THEN [data EXCEPT !.qa_pairs =
            [k \in DOMAIN data.qa_pairs |->
                QAPair(data.qa_pairs[k].question, data.qa_pairs[k].answer,
                       data.qa_pairs[k].thinking, data.qa_pairs[k].is_reasoning,
                       data.qa_pairs[k].parent_qa_id)]]
    ELSE data

\* the file <id>.json that holds p
File(p) == Some(json_dump(to_dict(p)))

\* ArxivFetcher.save_paper / DeepSeekAnalyzer._save_paper : write <id>.json
save_paper(st, p) == [st EXCEPT ![p.id] = File(p)]

paper_exists(st, id) == st[id] # None

\* ArxivFetcher.load_paper of a file that exists
load_paper(st, id) == from_dict(json_load(st[id][1]))

----------------------------------------------------------------------------
(* The model dependency *)

\* scores the model may put in its JSON judgment
LLMScores == {5, 6, 11}

\* outcomes of one Quick-Filter request: a transport error, a body that is no
\* JSON object, a JSON object whose relevance_score float() rejects, or a
\* judgment
S1Responses ==
    { [kind |-> k, is_relevant |-> "False", relevance_score |-> 0] :
        k \in {"error", "unparsable"} }
    \cup { [kind |-> "badscore", is_relevant |-> "True", relevance_score |-> 0] }
    \cup { [kind |-> "ok", is_relevant |-> "True", relevance_score |-> s] :
        s \in LLMScores }
    \cup { [kind |-> "ok", is_relevant |-> r, relevance_score |-> 5] :
        r \in {"False", "None"} }

\* outcomes of one _ask_question request
QResponses == { [kind |-> "error", text |-> <<>>], [kind |-> "ok", text |-> <<"a">>] }

----------------------------------------------------------------------------
(* analyzer.py : the two stages as step functions of one coroutine.        *)
(* A stage call is [pc, att, qi, res, prefix]: where the coroutine is      *)
(* suspended, the retry loop's attempt, the preset question being asked,   *)
(* how the call ended, and stage2_qa's local cache_prefix.  Each function  *)
(* returns the paper object, the call and whether the segment wrote the    *)
(* paper to the store.                                                     *)

Call(pc, att, qi, res) ==
    [pc |-> pc, att |-> att, qi |-> qi, res |-> res, prefix |-> <<>>]

NoCall == Call("none", 0, 0, "")

Out(p, c, sv) == [paper |-> p, call |-> c, save |-> sv]

searchable_text(p) == Lower(p.title \o <<" ">> \o p.preview_text)

Matches(kw, p) == Contains(Lower(kw), searchable_text(p))

\* index of the first negative keyword that matches, 0 when none does
FirstNegMatch(kws, p) ==
    IF \E i \in 1..Len(kws) : Matches(kws[i], p)
    THEN CHOOSE i \in 1..Len(kws) :
            /\ Matches(kws[i], p)
            /\ \A j \in 1..(i - 1) : ~Matches(kws[j], p)
    ELSE 0

NegKeywordTag(kw) == <<"X", " ">> \o kw
NegSummary(kw) == <<"<">> \o kw \o <<">">>

\* variant: the keywords are compared with the text as written, not lowered
stage1_begin_case_sensitive(p, cfg) ==
    LET text == p.title \o <<" ">> \o p.preview_text
        hits == { i \in 1..Len(cfg.negative_keywords) :
                    Contains(cfg.negative_keywords[i], text) }
    IN IF hits # {}
       THEN LET k == CHOOSE i \in hits : \A j \in hits : i <= j IN
            Out([p EXCEPT !.is_relevant = "False",
                          !.relevance_score = NegScore,
                          !.extracted_keywords = <<NegKeywordTag(cfg.negative_keywords[k])>>,
                          !.one_line_summary = NegSummary(cfg.negative_keywords[k])],
                Call("ret", 0, 0, "neg"), TRUE)
       ELSE Out(p, Call("s1_req", 0, 0, ""), FALSE)

\* stage1_filter up to its first await
stage1_begin(p, cfg) ==
    LET k == FirstNegMatch(cfg.negative_keywords, p) IN
    IF k # 0
    THEN Out([p EXCEPT !.is_relevant = "False",
                       !.relevance_score = NegScore,
                       !.extracted_keywords = <<NegKeywordTag(cfg.negative_keywords[k])>>,
                       !.one_line_summary = NegSummary(cfg.negative_keywords[k])],
             Call("ret", 0, 0, "neg"), TRUE)
    ELSE Out(p, Call("s1_req", 0, 0, ""), FALSE)

\* variant: a retry loop that gives up one attempt later
RetryOnceMore(c) ==
    IF c.att < max_retries
    THEN [c EXCEPT !.att = c.att + 1]
    ELSE [c EXCEPT !.pc = "ret", !.res = "failed"]

\* the except branch of a retry loop: sleep and try again, or give up
RetryOrGiveUp(c) ==
    IF c.att < max_retries - 1
    THEN [c EXCEPT !.att = c.att + 1]
    ELSE [c EXCEPT !.pc = "ret", !.res = "failed"]

\* variant: the last failure does not put is_relevant back to None
stage1_response_keeps_partial(p, c, r) ==
    IF r.kind = "ok"
    THEN Out([p EXCEPT !.is_relevant = r.is_relevant,
                       !.relevance_score = r.relevance_score,
                       !.extracted_keywords = << <<"k", "w">> >>,
                       !.one_line_summary = <<"o">>],
             [c EXCEPT !.pc = "ret", !.res = "ok"], TRUE)
    ELSE Out(IF r.kind = "badscore" THEN [p EXCEPT !.is_relevant = r.is_relevant] ELSE p,
             RetryOrGiveUp(c), FALSE)

\* stage1_filter resumed with the outcome of its request
stage1_response(p, c, r) ==
    IF r.kind = "ok"
    THEN Out([p EXCEPT !.is_relevant = r.is_relevant,
                       !.relevance_score = r.relevance_score,
                       !.extracted_keywords = << <<"k", "w">> >>,
                       !.one_line_summary = <<"o">>],
             [c EXCEPT !.pc = "ret", !.res = "ok"], TRUE)
    ELSE LET c2 == RetryOrGiveUp(c)
             \* float() raised after is_relevant was assigned
             p1 == IF r.kind = "badscore"
                   THEN [p EXCEPT !.is_relevant = r.is_relevant] ELSE p
             p2 == IF c2.res = "failed"
                   THEN [p1 EXCEPT !.is_relevant = "None"] ELSE p1
         IN Out(p2, c2, FALSE)

\* Python's `a or b` on strings
Or(a, b) == IF a # <<>> THEN a ELSE b

\* f"Paper Title: {title}\n\nPaper Content:\n{html_content or abstract}\n"
cache_prefix(p) ==
    <<"Paper Title: ">> \o p.title \o <<"Paper Content:">>
        \o Or(p.html_content, p.abstract)

detailed_summary_question == <<"summary?">>

\* variant: the first preset question is asked before the summary
stage2_begin_question_first(p) ==
    IF ~Truthy(p.is_relevant)
    THEN Out(p, Call("ret", 0, 0, "skipped"), FALSE)
    ELSE Out(p, [Call("s2_q", 0, 1, "") EXCEPT !.prefix = cache_prefix(p)], FALSE)

\* variant: only a record judged not relevant is skipped, an unjudged one is analysed
stage2_begin_unknown_runs(p) ==
    IF p.is_relevant = "False"
    THEN Out(p, Call("ret", 0, 0, "skipped"), FALSE)
    ELSE Out(p, [Call("s2_sum", 0, 0, "") EXCEPT !.prefix = cache_prefix(p)], FALSE)

\* stage2_qa up to its first await
stage2_begin(p) ==
    IF ~Truthy(p.is_relevant)
    THEN Out(p, Call("ret", 0, 0, "skipped"), FALSE)
    ELSE Out(p, [Call("s2_sum", 0, 0, "") EXCEPT !.prefix = cache_prefix(p)], FALSE)

\* the arguments of the _ask_question request a suspended stage2_qa has in
\* flight: the user message is cache_prefix, then "Question: ", then question
stage2_request(c, cfg) ==
    [cache_prefix |-> c.prefix,
     question |-> IF c.pc = "s2_sum" THEN detailed_summary_question
                  ELSE cfg.preset_questions[c.qi]]

\* variant: the prefix is built again from the paper before each preset
\* question, after the summary was stored on it
stage2_next_rebuilds_prefix(p, c, cfg) ==
    IF c.qi < Len(cfg.preset_questions)
    THEN Out(p, [c EXCEPT !.pc = "s2_q", !.att = 0, !.qi = c.qi + 1,
                          !.prefix = <<"Paper Title: ">> \o p.title \o <<"Paper Content:">>
                                        \o Or(p.detailed_summary, p.abstract)],
             FALSE)
    ELSE Out(p, [c EXCEPT !.pc = "ret", !.att = 0, !.res = "ok"], TRUE)

\* after the summary, or after question c.qi: ask the next preset question,
\* or save and return
stage2_next(p, c, cfg) ==
    IF c.qi < Len(cfg.preset_questions)
    THEN Out(p, [c EXCEPT !.pc = "s2_q", !.att = 0, !.qi = c.qi + 1], FALSE)
    ELSE Out(p, [c EXCEPT !.pc = "ret", !.att = 0, !.res = "ok"], TRUE)

\* variant: the paper is saved as soon as the summary is there
stage2_response_partial_save(p, c, cfg, r) ==
    IF r.kind # "ok"
    THEN Out(p, RetryOrGiveUp(c), FALSE)
    ELSE IF c.pc = "s2_sum"
         THEN [stage2_next([p EXCEPT !.detailed_summary = r.text], c, cfg)
                    EXCEPT !.save = TRUE]
         ELSE stage2_next(
                [p EXCEPT !.qa_pairs = Append(@,
                    QAPair(cfg.preset_questions[c.qi], r.text, None, FALSE, None))],
                c, cfg)

\* variant: the entries of the preset questions are marked as reasoning answers
stage2_response_marks_reasoning(p, c, cfg, r) ==
    IF r.kind # "ok"
    THEN Out(p, RetryOrGiveUp(c), FALSE)
    ELSE IF c.pc = "s2_sum"
         THEN stage2_next([p EXCEPT !.detailed_summary = r.text], c, cfg)
         ELSE stage2_next(
                [p EXCEPT !.qa_pairs = Append(@,
                    QAPair(cfg.preset_questions[c.qi], r.text, Some(<<>>), TRUE, None))],
                c, cfg)

\* stage2_qa resumed with the outcome of a request of _ask_question_with_retry
stage2_response(p, c, cfg, r) ==
    IF r.kind # "ok"
    THEN Out(p, RetryOrGiveUp(c), FALSE)
    ELSE IF c.pc = "s2_sum"
         THEN stage2_next([p EXCEPT !.detailed_summary = r.text], c, cfg)
         ELSE stage2_next(
                [p EXCEPT !.qa_pairs = Append(@,
                    QAPair(cfg.preset_questions[c.qi], r.text, None, FALSE, None))],
                c, cfg)

----------------------------------------------------------------------------
(* analyzer.py : process_papers.  A run holds the Paper objects it was     *)
(* given (papers), one stage call per paper (calls), the config object it  *)
(* was given (cfg), relevant_papers as indices into papers (rel), the      *)
(* start of the current Stage-2 batch (bi) and what its caller does when   *)
(* it returns (and_then).                                                  *)

IdleRun ==
    [st |-> "idle", papers |-> <<>>, calls |-> <<>>, cfg |-> <<>>,
     rel |-> <<>>, bi |-> 0, and_then |-> "none", id |-> 0]

Min(a, b) == IF a < b THEN a ELSE b
Max(a, b) == IF a > b THEN a ELSE b

\* indices of relevant_papers[bi : bi + concurrent]
Batch(r) ==
    { r.rel[j] : j \in (r.bi + 1)..Min(r.bi + r.cfg[1].concurrent_papers, Len(r.rel)) }

\* variant: a score equal to the threshold is not selected
RECURSIVE SelectIdx_strict(_, _, _)
SelectIdx_strict(papers, i, min_score) ==
    IF i > Len(papers) THEN <<>>
    ELSE (IF Truthy(papers[i].is_relevant) /\ papers[i].relevance_score > min_score
          THEN <<i>> ELSE <<>>) \o SelectIdx_strict(papers, i + 1, min_score)

\* the sequence of the elements of s (in order) that satisfy Test
RECURSIVE SelectIdx(_, _, _)
SelectIdx(papers, i, min_score) ==
    IF i > Len(papers) THEN <<>>
    ELSE (IF Truthy(papers[i].is_relevant) /\ papers[i].relevance_score >= min_score
          THEN <<i>> ELSE <<>>) \o SelectIdx(papers, i + 1, min_score)

\* variant: the coroutines of every remaining selected paper are created at once
StartBatch_all(r) ==
    [r EXCEPT !.st = "s2",
              !.calls = [k \in 1..Len(r.papers) |->
                            IF \E j \in (r.bi + 1)..Len(r.rel) : r.rel[j] = k
                            THEN Call("s2_init", 0, 0, "")
                            ELSE r.calls[k]]]

\* the for loop over batches: create the stage2_qa coroutines of the batch at bi
StartBatch(r) ==
    [r EXCEPT !.st = "s2",
              !.calls = [k \in 1..Len(r.papers) |->
                            IF k \in Batch(r) THEN Call("s2_init", 0, 0, "")
                            ELSE r.calls[k]]]

\* after the last batch, or with nothing to analyse: process_papers returns
FinishRun(r) == [IdleRun EXCEPT !.st = IF r.and_then = "export" THEN "export" ELSE "idle"]

\* process_papers(papers, config, skip_stage1) up to its first await
process_papers(papers, cfg, skip_stage1, and_then) ==
    LET r0 == [IdleRun EXCEPT !.papers = papers, !.cfg = Some(cfg),
                              !.and_then = and_then,
                              !.calls = [k \in 1..Len(papers) |-> NoCall]] IN
    IF papers = <<>> THEN FinishRun(r0)
    ELSE IF ~skip_stage1
    THEN [r0 EXCEPT !.st = "s1",
                    !.calls = [k \in 1..Len(papers) |-> Call("s1_init", 0, 0, "")]]
    ELSE StartBatch([r0 EXCEPT !.rel = [k \in 1..Len(papers) |-> k]])

\* positions in the papers list of a run
Slots == 1..Cardinality(Ids)

FreeRun(r) == runs[r].st = "idle"

\* a stage1_filter coroutine of the gather runs to its first await
RunStage1Begin(r, k) ==
    /\ runs[r].st = "s1"
    /\ k \in DOMAIN runs[r].calls
    /\ runs[r].calls[k].pc = "s1_init"
    /\ LET o == stage1_begin(runs[r].papers[k], runs[r].cfg[1]) IN
        /\ runs' = [runs EXCEPT ![r].papers[k] = o.paper, ![r].calls[k] = o.call]
        /\ store' = IF o.save THEN save_paper(store, o.paper) ELSE store
    /\ UNCHANGED <<config, asks, fetches, rechecks, boot, ops>>

\* the model answers (or fails) a Quick-Filter request
RunStage1Response(r, k, resp) ==
    /\ runs[r].st = "s1"
    /\ k \in DOMAIN runs[r].calls
    /\ runs[r].calls[k].pc = "s1_req"
    /\ LET o == stage1_response(runs[r].papers[k], runs[r].calls[k], resp) IN
        /\ runs' = [runs EXCEPT ![r].papers[k] = o.paper, ![r].calls[k] = o.call]
        /\ store' = IF o.save THEN save_paper(store, o.paper) ELSE store
    /\ UNCHANGED <<config, asks, fetches, rechecks, boot, ops>>

\* variant: the selection starts as soon as one stage1_filter has returned
RunGathered_first_completed(r) ==
    /\ runs[r].st = "s1"
    /\ \E k \in 1..Len(runs[r].papers) : runs[r].calls[k].pc = "ret"
    /\ LET rel == SelectIdx(runs[r].papers, 1,
                            runs[r].cfg[1].min_relevance_score_for_stage2)
           r1 == [runs[r] EXCEPT !.rel = rel, !.bi = 0]
       IN runs' = [runs EXCEPT ![r] = IF rel = <<>> THEN FinishRun(r1) ELSE StartBatch(r1)]
    /\ UNCHANGED <<store, config, asks, fetches, rechecks, boot, ops>>

\* asyncio.gather(*stage1_tasks) returns: select relevant_papers, start batch 1
RunGathered(r) ==
    /\ runs[r].st = "s1"
    /\ \A k \in 1..Len(runs[r].papers) : runs[r].calls[k].pc = "ret"
    /\ LET rel == SelectIdx(runs[r].papers, 1,
                            runs[r].cfg[1].min_relevance_score_for_stage2)
           r1 == [runs[r] EXCEPT !.rel = rel, !.bi = 0]
       IN runs' = [runs EXCEPT ![r] = IF rel = <<>> THEN FinishRun(r1) ELSE StartBatch(r1)]
    /\ UNCHANGED <<store, config, asks, fetches, rechecks, boot, ops>>

\* a stage2_qa coroutine of the batch runs to its first await
RunStage2Begin(r, k) ==
    /\ runs[r].st = "s2"
    /\ k \in DOMAIN runs[r].calls
    /\ runs[r].calls[k].pc = "s2_init"
    /\ LET o == stage2_begin(runs[r].papers[k]) IN
        runs' = [runs EXCEPT ![r].papers[k] = o.paper, ![r].calls[k] = o.call]
    /\ UNCHANGED <<store, config, asks, fetches, rechecks, boot, ops>>

\* the model answers (or fails) the summary request or a preset question
RunStage2Response(r, k, resp) ==
    /\ runs[r].st = "s2"
    /\ k \in DOMAIN runs[r].calls
    /\ runs[r].calls[k].pc \in {"s2_sum", "s2_q"}
    /\ LET o == stage2_response(runs[r].papers[k], runs[r].calls[k], runs[r].cfg[1], resp) IN
        /\ runs' = [runs EXCEPT ![r].papers[k] = o.paper, ![r].calls[k] = o.call]
        /\ store' = IF o.save THEN save_paper(store, o.paper) ELSE store
    /\ UNCHANGED <<config, asks, fetches, rechecks, boot, ops>>

\* variant: a failed stage2_qa of the batch ends process_papers
RunBatchDone_aborts(r) ==
    /\ runs[r].st = "s2"
    /\ \A k \in Batch(runs[r]) : runs[r].calls[k].pc = "ret"
    /\ LET r1 == [runs[r] EXCEPT !.bi = runs[r].bi + runs[r].cfg[1].concurrent_papers] IN
        runs' = [runs EXCEPT ![r] =
                    IF /\ r1.bi < Len(r1.rel)
                       /\ \A k \in Batch(runs[r]) : runs[r].calls[k].res # "failed"
                    THEN StartBatch(r1)
                    ELSE FinishRun(r1)]
    /\ UNCHANGED <<store, config, asks, fetches, rechecks, boot, ops>>

\* asyncio.gather(*stage2_tasks) returns: next batch, or process_papers returns
RunBatchDone(r) ==
    /\ runs[r].st = "s2"
    /\ \A k \in Batch(runs[r]) : runs[r].calls[k].pc = "ret"
    /\ LET r1 == [runs[r] EXCEPT !.bi = runs[r].bi + runs[r].cfg[1].concurrent_papers] IN
        runs' = [runs EXCEPT ![r] = IF r1.bi < Len(r1.rel) THEN StartBatch(r1)
                                    ELSE FinishRun(r1)]
    /\ UNCHANGED <<store, config, asks, fetches, rechecks, boot, ops>>

\* api.py cleanup_papers: unlink every data/papers/*.json
cleanup_papers(st) == [i \in Ids |-> None]

\* analyze_papers_task / check_pending_deep_analysis after process_papers:
\* export, upload, and cleanup_papers when the upload script ran successfully
RunExport(r, uploaded) ==
    /\ runs[r].st = "export"
    /\ runs' = [runs EXCEPT ![r].st = "idle"]
    /\ store' = IF uploaded THEN cleanup_papers(store) ELSE store
    /\ UNCHANGED <<config, asks, fetches, rechecks, boot, ops>>

----------------------------------------------------------------------------
(* fetcher.py : fetch_latest.  The category queries are folded into one    *)
(* feed of entries; todo is what is left of it, cur the entry whose HTML   *)
(* is being downloaded.                                                    *)

\* entry ids the paper source returns for the date window, over all
\* categories (a cross-listed paper appears twice); <<>> when the queries fail
Feeds == { <<>>, <<1, 2, 1>> }

IdleFetch ==
    [st |-> "idle", todo |-> <<>>, cur |-> 0, processed |-> {}, papers |-> <<>>,
     cfg |-> <<>>, caller |-> "none"]

\* the loop over feed.entries up to the next await: skip the entries that
\* exist on disk or were processed in this session
RECURSIVE FetchScan(_, _)
FetchScan(f, st) ==
    IF f.todo = <<>> THEN [f EXCEPT !.st = "return"]
    ELSE IF paper_exists(st, Head(f.todo)) \/ Head(f.todo) \in f.processed
    THEN FetchScan([f EXCEPT !.todo = Tail(f.todo)], st)
    ELSE [f EXCEPT !.st = "html", !.cur = Head(f.todo), !.todo = Tail(f.todo),
                   !.processed = f.processed \cup {Head(f.todo)}]

\* background_fetcher's loop body / trigger_fetch.fetch_and_analyze start:
\* Config.load, then fetch_latest awaits the category query
FetchStart(f, caller) ==
    /\ ops < MaxOps
    /\ fetches[f].st = "idle"
    /\ fetches' = [fetches EXCEPT ![f] =
            [IdleFetch EXCEPT !.st = "feed", !.cfg = Some(config), !.caller = caller]]
    /\ ops' = ops + 1
    /\ UNCHANGED <<store, config, runs, asks, rechecks, boot>>

\* background_fetcher's while True, the next iteration once
\* asyncio.sleep(fetch_interval) returned: Config.load, then fetch_latest
\* awaits the category query
BackgroundFetch(f) ==
    /\ fetches[f].st = "idle"
    /\ fetches' = [fetches EXCEPT ![f] =
            [IdleFetch EXCEPT !.st = "feed", !.cfg = Some(config), !.caller = "bg"]]
    /\ UNCHANGED <<store, config, runs, asks, rechecks, boot, ops>>

\* the caller of fetch_latest once it returned: process_papers on the new
\* papers (awaited by /fetch, as the task analyze_papers_task in the loop)
FetchReturn(f, r, f1) ==
    IF f1.st # "return"
    THEN /\ fetches' = [fetches EXCEPT ![f] = f1]
         /\ UNCHANGED runs
    ELSE /\ fetches' = [fetches EXCEPT ![f] = IdleFetch]
         /\ IF f1.papers = <<>> THEN UNCHANGED runs
            ELSE /\ FreeRun(r)
                 /\ runs' = [runs EXCEPT ![r] =
                        process_papers(f1.papers, f1.cfg[1], FALSE,
                            IF f1.caller = "bg" THEN "export" ELSE "none")]

\* the category queries answer with the feed
FetchFeed(f, r, feed) ==
    /\ fetches[f].st = "feed"
    /\ FetchReturn(f, r, FetchScan([fetches[f] EXCEPT !.todo = feed], store))
    /\ UNCHANGED <<store, config, asks, rechecks, boot, ops>>

\* _fetch_html returned: build the Paper, save it, go on with the entries
FetchHtml(f, r) ==
    /\ fetches[f].st = "html"
    /\ LET p == Paper(fetches[f].cur)
           st1 == save_paper(store, p)
           f1 == [fetches[f] EXCEPT !.papers = Append(@, p)]
       IN /\ store' = st1
          /\ FetchReturn(f, r, FetchScan(f1, st1))
    /\ UNCHANGED <<config, asks, rechecks, boot, ops>>

----------------------------------------------------------------------------
(* api.py : search_papers with an arXiv id *)

IsBlank(text) == \A i \in 1..Len(text) : text[i] = " "

\* needs_stage2 of search_papers, the filter of check_pending_deep_analysis
NeedsStage2(p, cfg) ==
    /\ p.is_relevant = "True"
    /\ p.relevance_score >= cfg.min_relevance_score_for_stage2
    /\ IsBlank(p.detailed_summary)

\* search_papers once fetch_single_paper returned the paper
SearchAnalyze(p, cfg) ==
    IF p.is_relevant = "None" THEN process_papers(<<p>>, cfg, FALSE, "none")
    ELSE IF NeedsStage2(p, cfg) THEN process_papers(<<p>>, cfg, TRUE, "none")
    ELSE IdleRun

\* GET /search?q=<id>: fetch_single_paper loads the stored paper without
\* suspending, or awaits the arXiv API for a paper that is not stored
search_papers(r, id) ==
    /\ ops < MaxOps
    /\ FreeRun(r)
    /\ runs' = [runs EXCEPT ![r] =
            IF paper_exists(store, id)
            THEN SearchAnalyze(load_paper(store, id), config)
            ELSE [IdleRun EXCEPT !.st = "fetch1", !.id = id]]
    /\ ops' = ops + 1
    /\ UNCHANGED <<store, config, asks, fetches, rechecks, boot>>

\* fetch_single_paper's requests returned (found) or raised
SearchFetched(r, found) ==
    /\ runs[r].st = "fetch1"
    /\ IF found
       THEN /\ store' = save_paper(store, Paper(runs[r].id))
            /\ runs' = [runs EXCEPT ![r] = SearchAnalyze(Paper(runs[r].id), config)]
       ELSE /\ runs' = [runs EXCEPT ![r] = IdleRun]
            /\ UNCHANGED store
    /\ UNCHANGED <<config, asks, fetches, rechecks, boot, ops>>

----------------------------------------------------------------------------
(* api.py : the handlers that load, change and save in one segment *)

\* hide_paper / unhide_paper
set_hidden(id, hidden) ==
    /\ ops < MaxOps
    /\ paper_exists(store, id)
    /\ store' = save_paper(store, [load_paper(store, id) EXCEPT !.is_hidden = hidden])
    /\ ops' = ops + 1
    /\ UNCHANGED <<config, runs, asks, fetches, rechecks, boot>>

star_paper(id) ==
    /\ ops < MaxOps
    /\ paper_exists(store, id)
    /\ store' = save_paper(store, [load_paper(store, id) EXCEPT !.is_starred = ~@])
    /\ ops' = ops + 1
    /\ UNCHANGED <<config, runs, asks, fetches, rechecks, boot>>

\* relevance_score values a client posts to update_relevance
PostedScores == {-3, 15}

Clamp(lo, hi, x) == Max(lo, Min(hi, x))

update_relevance(id, is_relevant, relevance_score) ==
    /\ ops < MaxOps
    /\ paper_exists(store, id)
    /\ store' = save_paper(store,
            [load_paper(store, id) EXCEPT
                !.is_relevant = IF is_relevant THEN "True" ELSE "False",
                !.relevance_score = Clamp(ScoreLo, ScoreHi, relevance_score)])
    /\ ops' = ops + 1
    /\ UNCHANGED <<config, runs, asks, fetches, rechecks, boot>>

\* POST /export/markdown: export, then cleanup_papers
export_to_markdown ==
    /\ ops < MaxOps
    /\ store' = cleanup_papers(store)
    /\ ops' = ops + 1
    /\ UNCHANGED <<config, runs, asks, fetches, rechecks, boot>>

Range(s) == { s[i] : i \in 1..Len(s) }

\* UpdateConfigRequest(): every field is optional.  temperature is in tenths.
EmptyRequest ==
    [negative_keywords |-> None, min_relevance_score_for_stage2 |-> None,
     concurrent_papers |-> None, fetch_interval |-> None,
     max_papers_per_fetch |-> None, temperature |-> None, max_tokens |-> None]

\* PUT /config bodies
UpdateConfigRequests ==
    { [EmptyRequest EXCEPT !.negative_keywords = Some(l)] : l \in NegKwLists }
    \cup { [EmptyRequest EXCEPT !.min_relevance_score_for_stage2 = Some(m)] : m \in {5, 12} }
    \cup { [EmptyRequest EXCEPT !.concurrent_papers = Some(c)] : c \in {0, 2} }

\* PUT /config bodies that set one of the other bounded fields, in and out
\* of its range
SettingsRequests ==
    { [EmptyRequest EXCEPT !.fetch_interval = Some(v)] : v \in {30, 600} }
    \cup { [EmptyRequest EXCEPT !.max_papers_per_fetch = Some(v)] : v \in {0, 100, 700} }
    \cup { [EmptyRequest EXCEPT !.temperature = Some(v)] : v \in {-5, 7, 25} }
    \cup { [EmptyRequest EXCEPT !.max_tokens = Some(v)] : v \in {50, 9000} }
    \cup { [EmptyRequest EXCEPT !.concurrent_papers = Some(v)] : v \in {0, 60} }
    \cup { [EmptyRequest EXCEPT !.min_relevance_score_for_stage2 = Some(v)] : v \in {-1, 12} }

update_config(req) ==
    /\ ops < MaxOps
    /\ LET c1 == IF req.negative_keywords # None
                 THEN [config EXCEPT !.negative_keywords = req.negative_keywords[1]]
                 ELSE config
           c2 == IF req.concurrent_papers # None
                 THEN [c1 EXCEPT !.concurrent_papers = Max(1, Min(50, req.concurrent_papers[1]))]
                 ELSE c1
           c2a == IF req.min_relevance_score_for_stage2 # None
                  THEN [c2 EXCEPT !.min_relevance_score_for_stage2 =
                            Max(0, Min(10, req.min_relevance_score_for_stage2[1]))]
                  ELSE c2
           c2b == IF req.fetch_interval # None
                  THEN [c2a EXCEPT !.fetch_interval = Max(60, req.fetch_interval[1])]
                  ELSE c2a
           c2c == IF req.max_papers_per_fetch # None
                  THEN [c2b EXCEPT !.max_papers_per_fetch =
                            Max(1, Min(500, req.max_papers_per_fetch[1]))]
                  ELSE c2b
           c2d == IF req.temperature # None
                  THEN [c2c EXCEPT !.temperature = Max(0, Min(20, req.temperature[1]))]
                  ELSE c2c
           c3 == IF req.max_tokens # None
                 THEN [c2d EXCEPT !.max_tokens = Max(100, Min(8000, req.max_tokens[1]))]
                 ELSE c2d
       IN /\ config' = c3
          /\ rechecks' = IF Range(c3.negative_keywords) # Range(config.negative_keywords)
                         THEN rechecks \cup {c3} ELSE rechecks
    /\ ops' = ops + 1
    /\ UNCHANGED <<store, runs, asks, fetches, boot>>

\* the orders in which a Python set of the keywords may iterate
Orders(S) == { o \in UNION { [1..n -> S] : n \in {Cardinality(S)} } : Range(o) = S }

\* variant: every relevant paper is rechecked, whatever its score
Recheck_any_score(p, cfg, o) ==
    IF p.is_relevant = "True" /\ FirstNegMatch(o, p) # 0
    THEN LET kw == o[FirstNegMatch(o, p)] IN
         [p EXCEPT !.is_relevant = "False",
                   !.relevance_score = NegScore,
                   !.extracted_keywords = <<NegKeywordTag(kw)>> \o @,
                   !.one_line_summary = NegSummary(kw)]
    ELSE p

\* recheck_negative_keywords on one stored paper, the set iterating in order o
Recheck(p, cfg, o) ==
    IF p.is_relevant = "True"
       /\ p.relevance_score >= cfg.min_relevance_score_for_stage2
       /\ FirstNegMatch(o, p) # 0
    THEN LET kw == o[FirstNegMatch(o, p)] IN
         [p EXCEPT !.is_relevant = "False",
                   !.relevance_score = NegScore,
                   !.extracted_keywords = <<NegKeywordTag(kw)>> \o @,
                   !.one_line_summary = NegSummary(kw)]
    ELSE p

\* the task recheck_negative_keywords(config, new_negative_keywords) runs
recheck_negative_keywords(cfg, o) ==
    /\ cfg \in rechecks
    /\ o \in Orders(Range(cfg.negative_keywords))
    /\ rechecks' = rechecks \ {cfg}
    /\ store' = [i \in Ids |->
                    IF paper_exists(store, i)
                       /\ Recheck(load_paper(store, i), cfg, o) # load_paper(store, i)
                    THEN File(Recheck(load_paper(store, i), cfg, o))
                    ELSE store[i]]
    /\ UNCHANGED <<config, runs, asks, fetches, boot, ops>>

\* the orders in which list_papers may return the papers in S
ListOrders(S) == { o \in UNION { [1..n -> S] : n \in {Cardinality(S)} } : Range(o) = S }

\* variant: every relevant paper without a summary is pending, whatever its
\* score
check_pending_deep_analysis_any_score(r, o) ==
    /\ boot
    /\ FreeRun(r)
    /\ o \in ListOrders({ i \in Ids : /\ paper_exists(store, i)
                                      /\ load_paper(store, i).is_relevant = "True"
                                      /\ IsBlank(load_paper(store, i).detailed_summary) })
    /\ boot' = FALSE
    /\ runs' = IF o = <<>> THEN runs
               ELSE [runs EXCEPT ![r] =
                        process_papers([k \in 1..Len(o) |-> load_paper(store, o[k])],
                                       config, TRUE, "export")]
    /\ UNCHANGED <<store, config, asks, fetches, rechecks, ops>>

\* the startup task check_pending_deep_analysis up to its first await
check_pending_deep_analysis(r, o) ==
    /\ boot
    /\ FreeRun(r)
    /\ o \in ListOrders({ i \in Ids : paper_exists(store, i)
                                      /\ NeedsStage2(load_paper(store, i), config) })
    /\ boot' = FALSE
    /\ runs' = IF o = <<>> THEN runs
               ELSE [runs EXCEPT ![r] =
                        process_papers([k \in 1..Len(o) |-> load_paper(store, o[k])],
                                       config, TRUE, "export")]
    /\ UNCHANGED <<store, config, asks, fetches, rechecks, ops>>

----------------------------------------------------------------------------
(* analyzer.py : ask_custom_question_stream and ask_custom_question.       *)
(* An ask holds the Paper object the endpoint loaded (paper), the config,  *)
(* the question as posted and as sent, the ids still to resolve (refs),    *)
(* the reference being analysed (ref) with its stage call, the resolved    *)
(* references, the walk's current_id (cur) and conversation_history, and   *)
(* the streaming retry loop's attempt and accumulators.                    *)

ThinkPrefix == <<"t", "h", "i", "n", "k", ":">>

\* bracketed arXiv ids as they appear in a question, and the id each names
RefOf == ("[1]" :> 1) @@ ("[2]" :> 2)

\* questions a client posts: plain, and with the reasoning marker
Questions == { <<"w">>,
               <<"T", "h", "i", "n", "K", ":", " ", "w">> }

\* questions that name other papers
RefQuestions == { <<"w", " ", "[2]">>, <<"[1]", "[2]", "[2]">> }

\* parent_qa_id values a client posts
Parents == { None, Some(0), Some(1) }

StartsWith(s, pre) == Len(s) >= Len(pre) /\ SubSeq(s, 1, Len(pre)) = pre

RECURSIVE LStrip(_)
LStrip(s) == IF s # <<>> /\ Head(s) = " " THEN LStrip(Tail(s)) ELSE s

RECURSIVE RStrip(_)
RStrip(s) == IF s # <<>> /\ s[Len(s)] = " " THEN RStrip(SubSeq(s, 1, Len(s) - 1)) ELSE s

\* str.strip()
Strip(s) == RStrip(LStrip(s))

\* re.findall(arxiv_id_pattern, question)
RECURSIVE referenced_ids(_)
referenced_ids(q) ==
    IF q = <<>> THEN <<>>
    ELSE (IF Head(q) \in DOMAIN RefOf THEN <<RefOf[Head(q)]>> ELSE <<>>)
         \o referenced_ids(Tail(q))

\* an event the generator yields: {"type": ..., "chunk": ...}
Event(type, chunk) == [type |-> type, chunk |-> chunk]

\* the two error notices of the retry loop
RetryNotice == Event("error", "retrying")
FailedNotice == Event("error", "failed")

\* api.py event_generator's own events: the completion marker it yields once
\* the analyzer's generator is exhausted, and the event of its except branch
DoneEvent == Event("done", "")
StreamErrorEvent == Event("exception", "")

\* st is where the request is suspended; emitted holds the events its latest
\* segment yielded to the consumer, delivered_answer and delivered_thinking
\* the content and thinking deltas the consumer has received since the
\* request started, closing what event_generator sent after them before the
\* response ended
IdleAsk ==
    [st |-> "idle", kind |-> "none", paper |-> <<>>, cfg |-> <<>>,
     original_question |-> <<>>, question |-> <<>>, is_reasoning |-> FALSE,
     parent_qa_id |-> None, refs |-> <<>>, ref |-> <<>>, call |-> NoCall,
     referenced_papers |-> <<>>, cur |-> None, conversation_history |-> <<>>,
     att |-> 0, full_answer |-> <<>>, full_thinking |-> <<>>, chunks |-> 0,
     emitted |-> <<>>, delivered_answer |-> <<>>, delivered_thinking |-> <<>>,
     closing |-> <<>>]

\* after the references: the walk over parent links (streaming only), then
\* the request
AfterRefs(a) ==
    LET p == a.paper[1] IN
    IF a.kind = "ask" THEN [a EXCEPT !.st = "req"]
    ELSE IF a.parent_qa_id # None
            /\ 0 <= a.parent_qa_id[1] /\ a.parent_qa_id[1] < Len(p.qa_pairs)
    THEN [a EXCEPT !.st = "walk", !.cur = a.parent_qa_id]
    ELSE [a EXCEPT !.st = "stream"]

\* the for loop over referenced_ids up to the next await.  Returns the ask
\* and the store.
RECURSIVE RefLoop(_, _)
RECURSIVE RefAfterStage1(_, _)

\* referenced_papers.append(ref_paper); next id
RefDone(a, st) ==
    RefLoop([a EXCEPT !.referenced_papers = Append(@, a.ref[1]), !.ref = None,
                      !.refs = Tail(a.refs)], st)

RefAfterStage1(a, st) ==
    IF Truthy(a.ref[1].is_relevant) /\ a.ref[1].detailed_summary = <<>>
    THEN LET o == stage2_begin(a.ref[1]) IN
         IF o.call.pc = "ret" THEN RefDone([a EXCEPT !.ref = Some(o.paper)], st)
         ELSE [ask |-> [a EXCEPT !.st = "ref_s2", !.ref = Some(o.paper), !.call = o.call],
               store |-> st]
    ELSE RefDone(a, st)

\* fetch_single_paper returned ref_paper
RefAnalyze(a, st) ==
    IF a.ref[1].is_relevant = "None"
    THEN LET o == stage1_begin(a.ref[1], a.cfg[1])
             st1 == IF o.save THEN save_paper(st, o.paper) ELSE st
         IN IF o.call.pc = "ret"
            THEN RefAfterStage1([a EXCEPT !.ref = Some(o.paper)], st1)
            ELSE [ask |-> [a EXCEPT !.st = "ref_s1", !.ref = Some(o.paper), !.call = o.call],
                  store |-> st1]
    ELSE RefAfterStage1(a, st)

RefLoop(a, st) ==
    IF a.refs = <<>> THEN [ask |-> AfterRefs(a), store |-> st]
    ELSE IF paper_exists(st, Head(a.refs))
    THEN RefAnalyze([a EXCEPT !.ref = Some(load_paper(st, Head(a.refs))),
                              !.call = NoCall], st)
    ELSE [ask |-> [a EXCEPT !.st = "ref_fetch", !.call = NoCall], store |-> st]

\* a request is served in the lowest slot that holds no request in progress
FreeAsk(a) ==
    /\ asks[a].st \in {"idle", "done", "raised"}
    /\ \A b \in AskIds : b < a => asks[b].st \notin {"idle", "done", "raised"}

\* a finished request keeps only how it ended; the generator of a streaming
\* request ended (event_generator sends the completion marker) or raised
\* (event_generator's except branch sends an error event)
Ended(st, kind, att, res) ==
    [IdleAsk EXCEPT !.st = st, !.kind = kind, !.call = Call("ret", att, 0, res),
                    !.closing = IF kind # "stream" THEN <<>>
                                ELSE IF st = "raised" THEN <<StreamErrorEvent>>
                                ELSE <<DoneEvent>>]

SetAsk(a, out) ==
    /\ asks' = [asks EXCEPT ![a] = out.ask]
    /\ store' = out.store

\* POST /papers/{id}/ask_stream: load_paper, Config.load, then the generator
\* up to its first await
ask_question_stream(a, id, q, parent) ==
    /\ ops < MaxOps
    /\ FreeAsk(a)
    /\ paper_exists(store, id)
    /\ LET reasoning == StartsWith(Lower(q), ThinkPrefix)
           question == IF reasoning THEN Strip(SubSeq(q, 7, Len(q))) ELSE q
       IN SetAsk(a, RefLoop([IdleAsk EXCEPT
                !.kind = "stream", !.paper = Some(load_paper(store, id)),
                !.cfg = Some(config), !.original_question = q,
                !.question = question, !.is_reasoning = reasoning,
                !.parent_qa_id = parent, !.refs = referenced_ids(question)], store))
    /\ ops' = ops + 1
    /\ UNCHANGED <<config, runs, fetches, rechecks, boot>>

\* POST /papers/{id}/ask: load_paper, Config.load, ask_custom_question up to
\* its first await
ask_question(a, id, q) ==
    /\ ops < MaxOps
    /\ FreeAsk(a)
    /\ paper_exists(store, id)
    /\ SetAsk(a, RefLoop([IdleAsk EXCEPT
                !.kind = "ask", !.paper = Some(load_paper(store, id)),
                !.cfg = Some(config), !.original_question = q,
                !.question = q, !.refs = referenced_ids(q)], store))
    /\ ops' = ops + 1
    /\ UNCHANGED <<config, runs, fetches, rechecks, boot>>

\* variant: a reference that cannot be fetched fails the whole request
AskRefFetched_raises(a, found) ==
    /\ asks[a].st = "ref_fetch"
    /\ LET id == Head(asks[a].refs) IN
       IF found
       THEN SetAsk(a, RefAnalyze([asks[a] EXCEPT !.ref = Some(Paper(id))],
                                 save_paper(store, Paper(id))))
       ELSE /\ asks' = [asks EXCEPT ![a] = Ended("raised", asks[a].kind, 0, "raised")]
            /\ UNCHANGED store
    /\ UNCHANGED <<config, runs, fetches, rechecks, boot, ops>>

\* fetch_single_paper of a reference that is not stored: the arXiv requests
\* returned (the paper is built and saved) or raised (the reference is skipped)
AskRefFetched(a, found) ==
    /\ asks[a].st = "ref_fetch"
    /\ LET id == Head(asks[a].refs) IN
       IF found
       THEN SetAsk(a, RefAnalyze([asks[a] EXCEPT !.ref = Some(Paper(id))],
                                 save_paper(store, Paper(id))))
       ELSE SetAsk(a, RefLoop([asks[a] EXCEPT !.refs = Tail(@)], store))
    /\ UNCHANGED <<config, runs, fetches, rechecks, boot, ops>>

\* stage1_filter(ref_paper) resumed with the outcome of its request
AskRefStage1Response(a, resp) ==
    /\ asks[a].st = "ref_s1"
    /\ LET o == stage1_response(asks[a].ref[1], asks[a].call, resp)
           st1 == IF o.save THEN save_paper(store, o.paper) ELSE store
           a1 == [asks[a] EXCEPT !.ref = Some(o.paper), !.call = o.call]
       IN IF o.call.pc = "ret" THEN SetAsk(a, RefAfterStage1(a1, st1))
          ELSE SetAsk(a, [ask |-> a1, store |-> st1])
    /\ UNCHANGED <<config, runs, fetches, rechecks, boot, ops>>

\* stage2_qa(ref_paper) resumed with the outcome of a request
AskRefStage2Response(a, resp) ==
    /\ asks[a].st = "ref_s2"
    /\ LET o == stage2_response(asks[a].ref[1], asks[a].call, asks[a].cfg[1], resp)
           st1 == IF o.save THEN save_paper(store, o.paper) ELSE store
           a1 == [asks[a] EXCEPT !.ref = Some(o.paper), !.call = o.call]
       IN IF o.call.pc = "ret" THEN SetAsk(a, RefDone(a1, st1))
          ELSE SetAsk(a, [ask |-> a1, store |-> st1])
    /\ UNCHANGED <<config, runs, fetches, rechecks, boot, ops>>

\* Python list indexing: qa_pairs[i] exists for -len <= i < len
InList(i, n) == -n <= i /\ i < n
PyIndex(i, n) == IF i < 0 THEN n + i + 1 ELSE i + 1

\* variant: the thinking trace of an entry goes into its history turn
AskWalk_keeps_thinking(a) ==
    /\ asks[a].st = "walk"
    /\ Len(asks[a].conversation_history) < MaxWalk
    /\ LET qa_pairs == asks[a].paper[1].qa_pairs
           i == asks[a].cur[1]
       IN IF ~InList(i, Len(qa_pairs))
          THEN asks' = [asks EXCEPT ![a] = Ended("raised", "stream", 0, "raised")]
          ELSE LET qa == qa_pairs[PyIndex(i, Len(qa_pairs))]
                   a1 == [asks[a] EXCEPT
                            !.conversation_history =
                                <<[question |-> qa.question,
                                   answer |-> (IF qa.thinking # None THEN qa.thinking[1]
                                               ELSE <<>>) \o qa.answer,
                                   pos |-> PyIndex(i, Len(qa_pairs)) - 1]>> \o @,
                            !.cur = qa.parent_qa_id]
               IN asks' = [asks EXCEPT ![a] =
                            IF a1.cur = None THEN [a1 EXCEPT !.st = "stream"] ELSE a1]
    /\ UNCHANGED <<store, config, runs, fetches, rechecks, boot, ops>>

\* one iteration of `while current_id is not None`
AskWalk(a) ==
    /\ asks[a].st = "walk"
    /\ Len(asks[a].conversation_history) < MaxWalk
    /\ LET qa_pairs == asks[a].paper[1].qa_pairs
           i == asks[a].cur[1]
       IN IF ~InList(i, Len(qa_pairs))
          THEN \* IndexError leaves the generator
               asks' = [asks EXCEPT ![a] = Ended("raised", "stream", 0, "raised")]
          ELSE LET qa == qa_pairs[PyIndex(i, Len(qa_pairs))]
                   a1 == [asks[a] EXCEPT
                            !.conversation_history =
                                <<[question |-> qa.question, answer |-> qa.answer,
                                   pos |-> PyIndex(i, Len(qa_pairs)) - 1]>> \o @,
                            !.cur = qa.parent_qa_id]
               IN asks' = [asks EXCEPT ![a] =
                            IF a1.cur = None THEN [a1 EXCEPT !.st = "stream"] ELSE a1]
    /\ UNCHANGED <<store, config, runs, fetches, rechecks, boot, ops>>

\* _ask_question_stream yields a delta: accumulate it and yield it on
AskStreamChunk(a, type) ==
    /\ asks[a].st = "stream"
    /\ asks[a].chunks < MaxChunks
    /\ type = "thinking" => asks[a].is_reasoning
    /\ asks' = [asks EXCEPT
            ![a].chunks = @ + 1,
            ![a].emitted = <<Event(type, IF type = "thinking" THEN "t" ELSE "c")>>,
            ![a].delivered_thinking = IF type = "thinking" THEN Append(@, "t") ELSE @,
            ![a].delivered_answer = IF type = "content" THEN Append(@, "c") ELSE @,
            ![a].full_thinking = IF type = "thinking" THEN Append(@, "t") ELSE @,
            ![a].full_answer = IF type = "content" THEN Append(@, "c") ELSE @]
    /\ UNCHANGED <<store, config, runs, fetches, rechecks, boot, ops>>

\* variant: the last failure ends the generator without an error event
AskStreamError_silent(a) ==
    /\ asks[a].st = "stream"
    /\ asks' = [asks EXCEPT ![a] =
            IF asks[a].att < max_retries - 1
            THEN [@ EXCEPT !.att = @ + 1, !.chunks = 0,
                           !.full_answer = <<>>, !.full_thinking = <<>>,
                           !.emitted = <<RetryNotice>>]
            ELSE Ended("done", "stream", @.att, "failed")]
    /\ UNCHANGED <<store, config, runs, fetches, rechecks, boot, ops>>

\* variant: the next attempt goes on with what the failed one accumulated
AskStreamError_keeps_partial(a) ==
    /\ asks[a].st = "stream"
    /\ asks' = [asks EXCEPT ![a] =
            IF asks[a].att < max_retries - 1
            THEN [@ EXCEPT !.att = @ + 1, !.chunks = 0,
                           !.emitted = <<RetryNotice>>]
            ELSE [Ended("done", "stream", @.att, "failed")
                    EXCEPT !.emitted = <<FailedNotice>>]]
    /\ UNCHANGED <<store, config, runs, fetches, rechecks, boot, ops>>

\* the stream of this attempt raised: the except branch of the retry loop,
\* and the reset of the accumulators at the top of the next attempt
AskStreamError(a) ==
    /\ asks[a].st = "stream"
    /\ asks' = [asks EXCEPT ![a] =
            IF asks[a].att < max_retries - 1
            THEN [@ EXCEPT !.att = @ + 1, !.chunks = 0,
                           !.full_answer = <<>>, !.full_thinking = <<>>,
                           !.emitted = <<RetryNotice>>]
            ELSE [Ended("done", "stream", @.att, "failed")
                    EXCEPT !.emitted = <<FailedNotice>>]]
    /\ UNCHANGED <<store, config, runs, fetches, rechecks, boot, ops>>

\* variant: the entry records the question as it was sent to the model
StreamQAPair_stripped(a) ==
    QAPair(a.question, a.full_answer,
           IF a.is_reasoning THEN Some(a.full_thinking) ELSE None,
           a.is_reasoning, a.parent_qa_id)

\* the QAPair ask_custom_question_stream appends
StreamQAPair(a) ==
    QAPair(a.original_question, a.full_answer,
           IF a.is_reasoning THEN Some(a.full_thinking) ELSE None,
           a.is_reasoning, a.parent_qa_id)

\* variant: a stream that ended is saved whatever it delivered
AskStreamEnd_saves_empty(a) ==
    /\ asks[a].st = "stream"
    /\ LET x == asks[a]
           p == [x.paper[1] EXCEPT !.qa_pairs = Append(@, StreamQAPair(x))]
       IN /\ asks' = [asks EXCEPT ![a] = Ended("done", "stream", x.att,
                        IF x.full_answer # <<>> \/ x.full_thinking # <<>>
                        THEN "ok" ELSE "empty")]
          /\ store' = save_paper(store, p)
    /\ UNCHANGED <<config, runs, fetches, rechecks, boot, ops>>

\* the stream ended: append the QAPair and save (only when the stream
\* delivered an answer or a thinking trace)
AskStreamEnd(a) ==
    /\ asks[a].st = "stream"
    /\ LET x == asks[a]
           p == [x.paper[1] EXCEPT !.qa_pairs = Append(@, StreamQAPair(x))]
       IN IF x.full_answer # <<>> \/ x.full_thinking # <<>>
          THEN /\ asks' = [asks EXCEPT ![a] = Ended("done", "stream", x.att, "ok")]
               /\ store' = save_paper(store, p)
          ELSE /\ asks' = [asks EXCEPT ![a] = Ended("done", "stream", x.att, "empty")]
               /\ UNCHANGED store
    /\ UNCHANGED <<config, runs, fetches, rechecks, boot, ops>>

\* ask_custom_question's single _ask_question request answered or raised
AskResponse(a, resp) ==
    /\ asks[a].st = "req"
    /\ IF resp.kind = "ok"
       THEN LET p == [asks[a].paper[1] EXCEPT !.qa_pairs =
                        Append(@, QAPair(asks[a].question, resp.text, None, FALSE, None))]
            IN /\ asks' = [asks EXCEPT ![a] = Ended("done", "ask", 0, "ok")]
               /\ store' = save_paper(store, p)
       ELSE /\ asks' = [asks EXCEPT ![a] = Ended("raised", "ask", 0, "raised")]
            /\ UNCHANGED store
    /\ UNCHANGED <<config, runs, fetches, rechecks, boot, ops>>

----------------------------------------------------------------------------
(* analyzer.py : what an ask sends to the model.  The context and the      *)
(* question are built from the request's locals once the references are    *)
(* resolved; every attempt of the retry loop sends the same arguments.     *)

\* id_to_title: the titles of the references that were appended, by id
id_to_title(refs) ==
    [i \in { refs[k].id : k \in DOMAIN refs } |->
        (CHOOSE k \in DOMAIN refs : refs[k].id = i /\
            \A j \in DOMAIN refs : refs[j].id = i => j <= k) ]

\* enhanced_question: str.replace of f"[{ref_id}]" by f'"{title}"'
RECURSIVE replace_ids(_, _, _)
replace_ids(q, refs, titles) ==
    IF q = <<>> THEN <<>>
    ELSE (IF Head(q) \in DOMAIN RefOf /\ RefOf[Head(q)] \in DOMAIN titles
          THEN <<"\"">> \o refs[titles[RefOf[Head(q)]]].title \o <<"\"">>
          ELSE <<Head(q)>>)
         \o replace_ids(Tail(q), refs, titles)

IdxStr == <<"1", "2", "3">>

\* the context_parts of referenced_papers[idx..]
RECURSIVE reference_parts(_, _)
reference_parts(refs, idx) ==
    IF idx > Len(refs) THEN <<>>
    ELSE <<"=== REFERENCE PAPER ", IdxStr[idx], " ===", "Title: ">> \o refs[idx].title
         \o <<"Content:">> \o Or(refs[idx].html_content, refs[idx].abstract)
         \o reference_parts(refs, idx + 1)

\* the arguments of the request of an ask whose references are resolved
ask_request(a) ==
    LET p == a.paper[1]
        refs == a.referenced_papers
    IN [model |-> IF a.kind = "stream" /\ a.is_reasoning
                  THEN "deepseek-reasoner" ELSE a.cfg[1].model,
        cache_prefix |->
            IF refs # <<>>
            THEN <<"=== CURRENT PAPER ===", "Title: ">> \o p.title
                 \o <<"Content:">> \o Or(p.html_content, p.abstract)
                 \o reference_parts(refs, 1)
            ELSE cache_prefix(p),
        question |-> IF refs # <<>>
                     THEN replace_ids(a.question, refs, id_to_title(refs))
                     ELSE a.question]

\* a chat message
Message(role, content) == [role |-> role, content |-> content]

\* the two messages of each conv of conversation_history, in its order
RECURSIVE history_messages(_)
history_messages(h) ==
    IF h = <<>> THEN <<>>
    ELSE <<Message("user", <<"Question: ">> \o Head(h).question),
           Message("assistant", Head(h).answer)>> \o history_messages(Tail(h))

\* _ask_question_stream: the messages of the request of a streaming ask.
\* conversation_history is passed only when parent_qa_id is not None.
stream_messages(a) ==
    <<Message("system", <<"system_prompt">>)>>
    \o (IF a.parent_qa_id # None THEN history_messages(a.conversation_history)
        ELSE <<>>)
    \o <<Message("user", ask_request(a).cache_prefix \o <<"Question: ">>
                            \o ask_request(a).question)>>

----------------------------------------------------------------------------
(* The service *)

\* default_config.py, the config lifespan writes when data/config.json does
\* not exist (temperature 0.3 in tenths; the keyword and question lists in
\* the alphabet of the model's texts)
DEFAULT_CONFIG ==
    [negative_keywords |-> << <<"z">>, <<"L", " ", "a">> >>,
     preset_questions |-> PresetQuestions,
     fetch_interval |-> 300, max_papers_per_fetch |-> 1000,
     model |-> "deepseek-chat", temperature |-> 3, max_tokens |-> 2000,
     concurrent_papers |-> 10, min_relevance_score_for_stage2 |-> 6]

\* a config an earlier life of the process left: no negative keywords, one
\* paper per batch
DefaultConfig ==
    [DEFAULT_CONFIG EXCEPT !.negative_keywords = <<>>, !.concurrent_papers = 1]

\* a record whose Stage 2 failed in an earlier life of the process
PendingPaper(id) == [Paper(id) EXCEPT !.is_relevant = "True", !.relevance_score = 6,
                                      !.extracted_keywords = << <<"k", "w">> >>,
                                      !.one_line_summary = <<"o">>]

\* The process starts over a store and a config left by an earlier life
InitStore ==
    store \in { [i \in Ids |-> IF i = 1 THEN File(p) ELSE None] :
                    p \in {Paper(1), PendingPaper(1)} }

Idle ==
    /\ runs = [r \in RunIds |-> IdleRun]
    /\ asks = [a \in AskIds |-> IdleAsk]
    /\ fetches = [f \in FetchIds |-> IdleFetch]
    /\ rechecks = {}
    /\ ops = 0

\* the coroutines of process_papers, whoever started the run
Pipeline ==
    \/ \E r \in RunIds, k \in Slots : RunStage1Begin(r, k)
    \/ \E r \in RunIds, k \in Slots, resp \in S1Responses : RunStage1Response(r, k, resp)
    \/ \E r \in RunIds : RunGathered(r)
    \/ \E r \in RunIds, k \in Slots : RunStage2Begin(r, k)
    \/ \E r \in RunIds, k \in Slots, resp \in QResponses : RunStage2Response(r, k, resp)
    \/ \E r \in RunIds : RunBatchDone(r)
    \/ \E r \in RunIds, uploaded \in BOOLEAN : RunExport(r, uploaded)

\* the sequences over S without repetition, of every length
Lists(S) == UNION { ListOrders(T) : T \in SUBSET S }

(* The pipeline: the startup sweep, then searches by id, manual fetches    *)
(* and manual relevance updates, one process_papers run at a time.         *)

Init ==
    /\ InitStore
    /\ config \in { [DefaultConfig EXCEPT !.negative_keywords = l] : l \in NegKwLists }
    /\ Idle
    /\ boot = TRUE

Next ==
    \/ Pipeline
    \/ \E o \in Lists(Ids) : check_pending_deep_analysis(1, o)
    \/ \E id \in Ids : search_papers(1, id)
    \/ \E found \in BOOLEAN : SearchFetched(1, found)
    \/ \E id \in Ids, rel \in BOOLEAN, sc \in PostedScores : update_relevance(id, rel, sc)
    \/ FetchStart(1, "manual")
    \/ \E feed \in Feeds : FetchFeed(1, 1, feed)
    \/ FetchHtml(1, 1)

Spec == Init /\ [][Next]_vars

(* The same service under configuration changes, user flags, exports and  *)
(* the background fetch cycle.                                             *)

NextAdmin ==
    \/ Pipeline
    \/ \E o \in Lists(Ids) : check_pending_deep_analysis(1, o)
    \/ \E id \in Ids : search_papers(1, id)
    \/ \E found \in BOOLEAN : SearchFetched(1, found)
    \/ \E req \in UpdateConfigRequests : update_config(req)
    \/ \E cfg \in rechecks : \E o \in Orders(Range(cfg.negative_keywords)) :
            recheck_negative_keywords(cfg, o)
    \/ \E id \in Ids, hidden \in BOOLEAN : set_hidden(id, hidden)
    \/ \E id \in Ids : star_paper(id)
    \/ export_to_markdown
    \/ FetchStart(1, "bg")
    \/ \E feed \in Feeds : FetchFeed(1, 1, feed)
    \/ FetchHtml(1, 1)

SpecAdmin == Init /\ [][NextAdmin]_vars

(* Searches by id while the startup sweep runs: two process_papers runs.   *)

NextRace ==
    \/ Pipeline
    \/ \E o \in Lists(Ids) : check_pending_deep_analysis(1, o)
    \/ \E id \in Ids : search_papers(2, id)
    \/ \E found \in BOOLEAN : SearchFetched(2, found)

SpecRace == Init /\ [][NextRace]_vars

(* Questions on a stored paper, two requests at a time, after the startup  *)
(* sweep.                                                                  *)

InitAsk ==
    /\ InitStore
    /\ config = DefaultConfig
    /\ Idle
    /\ boot = FALSE

NextAsk ==
    \/ \E a \in AskIds, id \in Ids, q \in Questions, parent \in Parents :
            ask_question_stream(a, id, q, parent)
    \/ \E a \in AskIds, id \in Ids, q \in Questions : ask_question(a, id, q)
    \/ \E a \in AskIds : AskWalk(a)
    \/ \E a \in AskIds, type \in {"thinking", "content"} : AskStreamChunk(a, type)
    \/ \E a \in AskIds : AskStreamError(a)
    \/ \E a \in AskIds : AskStreamEnd(a)
    \/ \E a \in AskIds, resp \in QResponses : AskResponse(a, resp)

SpecAsk == InitAsk /\ [][NextAsk]_vars

(* Streamed questions that name other papers, one request at a time: the   *)
(* references are fetched and passed through both stages.                  *)

NextRef ==
    \/ \E q \in RefQuestions : ask_question_stream(1, 1, q, None)
    \/ \E found \in BOOLEAN : AskRefFetched(1, found)
    \/ \E resp \in S1Responses : AskRefStage1Response(1, resp)
    \/ \E resp \in QResponses : AskRefStage2Response(1, resp)
    \/ \E type \in {"thinking", "content"} : AskStreamChunk(1, type)
    \/ AskStreamError(1)
    \/ AskStreamEnd(1)

SpecRef == InitAsk /\ [][NextRef]_vars

(* The settings: the service starts in a fresh data directory, where       *)
(* lifespan writes the default config, and serves PUT /config.             *)

InitConfig ==
    /\ store = [i \in Ids |-> None]
    /\ config = DEFAULT_CONFIG
    /\ Idle
    /\ boot = TRUE

NextConfig ==
    \/ \E req \in UpdateConfigRequests \cup SettingsRequests : update_config(req)
    \/ \E cfg \in rechecks : \E o \in Orders(Range(cfg.negative_keywords)) :
            recheck_negative_keywords(cfg, o)

SpecConfig == InitConfig /\ [][NextConfig]_vars

(* The service left to itself in a fresh data directory: the startup      *)
(* sweep and the fetch loop, which runs for as long as the process lives.  *)
(* Every coroutine that can run does run, the paper source answers again   *)
(* and again, and a model request that is issued again and again is        *)
(* eventually answered.                                                    *)

InitLive ==
    /\ store = [i \in Ids |-> None]
    /\ config = DefaultConfig
    /\ Idle
    /\ boot = TRUE

\* the date window holds one paper, listed in two categories
LiveFeed == <<1, 1>>

NextLive ==
    \/ Pipeline
    \/ \E o \in Lists(Ids) : check_pending_deep_analysis(2, o)
    \/ BackgroundFetch(1)
    \/ \E feed \in {<<>>, LiveFeed} : FetchFeed(1, 1, feed)
    \/ FetchHtml(1, 1)

\* the outcomes of a request to a healthy model dependency
S1Healthy == { resp \in S1Responses : resp.kind = "ok" }
QHealthy == { resp \in QResponses : resp.kind = "ok" }

FairLive ==
    /\ WF_vars(\E o \in Lists(Ids) : check_pending_deep_analysis(2, o))
    /\ WF_vars(BackgroundFetch(1))
    /\ SF_vars(FetchFeed(1, 1, LiveFeed))
    /\ WF_vars(FetchHtml(1, 1))
    /\ \A r \in RunIds :
        /\ WF_vars(RunGathered(r))
        /\ WF_vars(RunBatchDone(r))
        /\ WF_vars(\E uploaded \in BOOLEAN : RunExport(r, uploaded))
        /\ \A k \in Slots :
            /\ WF_vars(RunStage1Begin(r, k))
            /\ WF_vars(RunStage2Begin(r, k))
            /\ SF_vars(\E resp \in S1Healthy : RunStage1Response(r, k, resp))
            /\ SF_vars(\E resp \in QHealthy : RunStage2Response(r, k, resp))

SpecLive == InitLive /\ [][NextLive]_vars /\ FairLive

(* The same service holding a record that Quick-Filter judged relevant     *)
(* below the threshold, while the threshold is changed through PUT /config *)
(* and the paper source has nothing new: the startup sweep is the only     *)
(* caller of process_papers.                                               *)

\* a record judged relevant with a score under the default threshold
LowScorePaper(id) == [PendingPaper(id) EXCEPT !.relevance_score = 5]

InitTune ==
    /\ store = [i \in Ids |-> IF i = 2 THEN File(LowScorePaper(2)) ELSE None]
    /\ config = DefaultConfig
    /\ Idle
    /\ boot = TRUE

\* PUT /config bodies that set the threshold only
ThresholdRequests ==
    { req \in UpdateConfigRequests : req.min_relevance_score_for_stage2 # None }

NextTune ==
    \/ \E o \in Lists(Ids) : check_pending_deep_analysis(2, o)
    \/ \E k \in Slots : RunStage2Begin(2, k)
    \/ \E k \in Slots, resp \in QResponses : RunStage2Response(2, k, resp)
    \/ RunBatchDone(2)
    \/ \E uploaded \in BOOLEAN : RunExport(2, uploaded)
    \/ BackgroundFetch(1)
    \/ FetchFeed(1, 1, <<>>)
    \/ \E req \in ThresholdRequests : update_config(req)

FairTune ==
    /\ WF_vars(\E o \in Lists(Ids) : check_pending_deep_analysis(2, o))
    /\ WF_vars(BackgroundFetch(1))
    /\ WF_vars(FetchFeed(1, 1, <<>>))
    /\ WF_vars(RunBatchDone(2))
    /\ WF_vars(\E uploaded \in BOOLEAN : RunExport(2, uploaded))
    /\ \A k \in Slots :
        /\ WF_vars(RunStage2Begin(2, k))
        /\ SF_vars(\E resp \in QHealthy : RunStage2Response(2, k, resp))

SpecTune == InitTune /\ [][NextTune]_vars /\ FairTune

(* The analyzer applied to a given record: process_papers with            *)
(* skip_stage1 passes every paper it is given to stage2_qa.                *)

\* a record the Quick-Filter judged not relevant
RejectedPaper(id) == [Paper(id) EXCEPT !.is_relevant = "False", !.relevance_score = 5,
                                       !.extracted_keywords = << <<"k", "w">> >>,
                                       !.one_line_summary = <<"o">>]

\* records a caller may hold: unjudged, judged relevant, judged not relevant
InputRecords == UNION { {Paper(i), PendingPaper(i), RejectedPaper(i)} : i \in Ids }

\* analyzer.process_papers([p], config, skip_stage1) called on a record
process_given(r, p, skip_stage1) ==
    /\ ops < MaxOps
    /\ FreeRun(r)
    /\ runs' = [runs EXCEPT ![r] = process_papers(<<p>>, config, skip_stage1, "none")]
    /\ ops' = ops + 1
    /\ UNCHANGED <<store, config, asks, fetches, rechecks, boot>>

NextUnit ==
    \/ \E p \in InputRecords, skip_stage1 \in BOOLEAN : process_given(1, p, skip_stage1)
    \/ \E k \in Slots : RunStage1Begin(1, k)
    \/ \E k \in Slots, resp \in S1Responses : RunStage1Response(1, k, resp)
    \/ RunGathered(1)
    \/ \E k \in Slots : RunStage2Begin(1, k)
    \/ \E k \in Slots, resp \in QResponses : RunStage2Response(1, k, resp)
    \/ RunBatchDone(1)

SpecUnit == Init /\ [][NextUnit]_vars

(* The re-filter sweep over a store of records in every stage of the      *)
(* pipeline, under changes of the negative keywords and of the threshold.  *)

InitSweep ==
    /\ store \in [Ids -> {None} \cup { File(p) : p \in InputRecords }]
    /\ \A i \in Ids : paper_exists(store, i) => load_paper(store, i).id = i
    /\ config = DefaultConfig
    /\ Idle
    /\ boot = FALSE

NextSweep ==
    \/ \E req \in UpdateConfigRequests : update_config(req)
    \/ \E cfg \in rechecks : \E o \in Orders(Range(cfg.negative_keywords)) :
            recheck_negative_keywords(cfg, o)

SpecSweep == InitSweep /\ [][NextSweep]_vars

(* Runs over several papers: a fresh data directory that a fetch fills, or *)
(* two records left pending that the sweep picks up, under either batch    *)
(* size.                                                                   *)

InitBatch ==
    /\ store \in { [i \in Ids |-> None], [i \in Ids |-> File(PendingPaper(i))] }
    /\ config \in { [DefaultConfig EXCEPT !.negative_keywords = l,
                                           !.concurrent_papers = c] :
                        l \in NegKwLists, c \in {1, 2} }
    /\ Idle
    /\ boot = TRUE

NextBatch ==
    \/ Pipeline
    \/ \E o \in Lists(Ids) : check_pending_deep_analysis(1, o)
    \/ FetchStart(1, "manual")
    \/ \E feed \in Feeds : FetchFeed(1, 1, feed)
    \/ FetchHtml(1, 1)

SpecBatch == InitBatch /\ [][NextBatch]_vars

(* Questions that name other papers, posted to either endpoint, one        *)
(* request at a time, up to the model request and its end.                 *)

NextCtx ==
    \/ \E q \in RefQuestions : ask_question_stream(1, 1, q, None)
    \/ \E q \in RefQuestions : ask_question(1, 1, q)
    \/ \E found \in BOOLEAN : AskRefFetched(1, found)
    \/ \E resp \in S1Responses : AskRefStage1Response(1, resp)
    \/ \E resp \in QResponses : AskRefStage2Response(1, resp)
    \/ \E resp \in QResponses : AskResponse(1, resp)
    \/ AskStreamError(1)
    \/ AskStreamEnd(1)

SpecCtx == InitAsk /\ [][NextCtx]_vars

(* Streamed questions and follow-ups on one record, one request at a time. *)

NextStream ==
    \/ \E q \in Questions, parent \in Parents : ask_question_stream(1, 1, q, parent)
    \/ AskWalk(1)
    \/ \E type \in {"thinking", "content"} : AskStreamChunk(1, type)
    \/ AskStreamError(1)
    \/ AskStreamEnd(1)

SpecStream == InitAsk /\ [][NextStream]_vars

(* Streamed questions and follow-ups whose stream never fails: the records *)
(* the requests save and the next requests load.                           *)

NextFiles ==
    \/ \E q \in Questions, parent \in Parents : ask_question_stream(1, 1, q, parent)
    \/ AskWalk(1)
    \/ \E type \in {"thinking", "content"} : AskStreamChunk(1, type)
    \/ AskStreamEnd(1)

SpecFiles == InitAsk /\ [][NextFiles]_vars

(* Follow-up questions on a record that went through both stages: its QA  *)
(* list holds the answers to the preset questions.                         *)

\* a record as a successful stage2_qa leaves it
AnalysedPaper(id) ==
    [PendingPaper(id) EXCEPT
        !.detailed_summary = <<"a">>,
        !.qa_pairs = [k \in 1..Len(PresetQuestions) |->
                        QAPair(PresetQuestions[k], <<"a">>, None, FALSE, None)]]

InitThread ==
    /\ store = [i \in Ids |-> IF i = 1 THEN File(AnalysedPaper(1)) ELSE None]
    /\ config = DefaultConfig
    /\ Idle
    /\ boot = FALSE

\* parent_qa_id values a client posts: none, a preset answer, the first
\* entry after the preset answers
ThreadParents == { None, Some(1), Some(2) }

NextThread ==
    \/ \E q \in Questions, parent \in ThreadParents : ask_question_stream(1, 1, q, parent)
    \/ AskWalk(1)
    \/ \E type \in {"thinking", "content"} : AskStreamChunk(1, type)
    \/ AskStreamError(1)
    \/ AskStreamEnd(1)

SpecThread == InitThread /\ [][NextThread]_vars

(* Deep-Analysis run again on one record: the startup sweep, then a search *)
(* by its id, against a model whose completion may be only whitespace.     *)

\* outcomes of one _ask_question request whose message.content may be blank
QResponsesOrBlank == QResponses \cup { [kind |-> "ok", text |-> <<" ">>] }

InitRerun ==
    /\ store = [i \in Ids |-> IF i = 1 THEN File(PendingPaper(1)) ELSE None]
    /\ config = DefaultConfig
    /\ Idle
    /\ boot = TRUE

NextRerun ==
    \/ \E o \in Lists(Ids) : check_pending_deep_analysis(1, o)
    \/ search_papers(1, 1)
    \/ \E k \in Slots : RunStage2Begin(1, k)
    \/ \E k \in Slots, resp \in QResponsesOrBlank : RunStage2Response(1, k, resp)
    \/ RunBatchDone(1)
    \/ \E uploaded \in BOOLEAN : RunExport(1, uploaded)

SpecRerun == InitRerun /\ [][NextRerun]_vars

----------------------------------------------------------------------------
(* Properties *)

StoredIds == { i \in Ids : paper_exists(store, i) }

IsPrefix(s, t) == Len(s) <= Len(t) /\ SubSeq(t, 1, Len(s)) = s

\* a negative keyword of cfg occurs, letter case aside, in the title, a
\* space and the preview of p
NegativeKeywordOccurs(p, cfg) ==
    \E i \in 1..Len(cfg.negative_keywords) :
        Contains(Lower(cfg.negative_keywords[i]),
                 Lower(p.title \o <<" ">> \o p.preview_text))

\* a negative keyword of cfg occurs in that text exactly as it is written
NegativeKeywordVerbatim(p, cfg) ==
    \E i \in 1..Len(cfg.negative_keywords) :
        Contains(cfg.negative_keywords[i], p.title \o <<" ">> \o p.preview_text)

\* C1: Deep-Analysis is all-or-nothing.  While a process_papers run is in
\* its Stage-2 batches, a step of a stage2_qa call writes the store only when
\* it ends the call successfully; a request is attempted at most 3 times;
\* the call fails terminally only on the failure of a third attempt, the
\* failing step writes nothing and leaves the call at the request that
\* failed (no question after it is requested); and a call that failed never
\* moves again.
C1_Stage2AllOrNothing ==
    [][\A r \in RunIds : \A k \in DOMAIN runs[r].calls :
        (runs[r].st = "s2" /\ runs'[r].st = "s2") =>
            LET c == runs[r].calls[k]
                c2 == runs'[r].calls[k]
            IN /\ (c2 # c /\ c2.res # "ok") => store' = store
               /\ (c2 # c /\ c2.res = "failed") =>
                    /\ c.pc \in {"s2_sum", "s2_q"}
                    /\ c.att + 1 = 3
                    /\ c2.pc = "ret"
                    /\ c2.qi = c.qi
               /\ (c2 # c /\ c2.pc = c.pc /\ c2.qi = c.qi) =>
                    c2.att = c.att + 1 /\ c2.att < 3
               /\ c.res = "failed" =>
                    c2 = c /\ runs'[r].papers[k] = runs[r].papers[k]
      ]_vars

\* a stage2_qa call failed on the second preset question, after the summary
\* and the first question were answered: the Paper object carries them, the
\* stored record does not
C1_Witness ==
    \E r \in RunIds : \E k \in DOMAIN runs[r].calls :
        /\ runs[r].st = "s2"
        /\ runs[r].calls[k].res = "failed"
        /\ runs[r].calls[k].qi = 2
        /\ runs[r].papers[k].detailed_summary # <<>>
        /\ Len(runs[r].papers[k].qa_pairs) = 1
        /\ paper_exists(store, runs[r].papers[k].id)
        /\ load_paper(store, runs[r].papers[k].id).detailed_summary = <<>>
        /\ load_paper(store, runs[r].papers[k].id).qa_pairs = <<>>

\* C2: when a configured negative keyword occurs case-insensitively in the
\* title and preview of a paper, the first segment of its stage1_filter call
\* ends the call (no model request is ever issued), with is_relevant = false
\* and relevance_score = 1, and the record is in the store as the call left it.
C2_NegativeKeywordFastPath ==
    [][\A r \in RunIds : \A k \in DOMAIN runs[r].calls :
        (/\ runs[r].st = "s1"
         /\ runs'[r].st = "s1"
         /\ runs[r].calls[k].pc = "s1_init"
         /\ runs'[r].calls[k] # runs[r].calls[k]
         /\ NegativeKeywordOccurs(runs[r].papers[k], runs[r].cfg[1])) =>
            LET p2 == runs'[r].papers[k] IN
            /\ runs'[r].calls[k].pc = "ret"
            /\ p2.is_relevant = "False"
            /\ p2.relevance_score = 1
            /\ store'[p2.id] = File(p2)
      ]_vars

\* a stage1_filter call returned on a keyword that occurs in the text only
\* when letter case is ignored, and the record is stored as not relevant
C2_Witness ==
    \E r \in RunIds : \E k \in DOMAIN runs[r].calls :
        /\ runs[r].st = "s1"
        /\ runs[r].calls[k].res = "neg"
        /\ NegativeKeywordOccurs(runs[r].papers[k], runs[r].cfg[1])
        /\ ~NegativeKeywordVerbatim(runs[r].papers[k], runs[r].cfg[1])
        /\ runs[r].papers[k].is_relevant = "False"
        /\ runs[r].papers[k].relevance_score = 1
        /\ store[runs[r].papers[k].id] = File(runs[r].papers[k])

\* C3: a Quick-Filter request step that does not end the call successfully
\* writes nothing to the store, and the failure of the third attempt ends
\* the call with is_relevant unknown.
C3_QuickFilterExhausted ==
    [][\A r \in RunIds : \A k \in DOMAIN runs[r].calls :
        (/\ runs[r].st = "s1"
         /\ runs'[r].st = "s1"
         /\ runs[r].calls[k].pc = "s1_req"
         /\ runs'[r].calls[k] # runs[r].calls[k]
         /\ runs'[r].calls[k].res # "ok") =>
            /\ store' = store
            /\ (runs[r].calls[k].att + 1 = 3) =>
                    /\ runs'[r].calls[k].pc = "ret"
                    /\ runs'[r].calls[k].res = "failed"
                    /\ runs'[r].papers[k].is_relevant = "None"
            /\ (runs[r].calls[k].att + 1 < 3) =>
                    runs'[r].calls[k].pc = "s1_req"
      ]_vars

\* a stage1_filter call gave up on a paper no negative keyword matches: its
\* is_relevant is unknown and the stored record is the one the fetch wrote
C3_Witness ==
    \E r \in RunIds : \E k \in DOMAIN runs[r].calls :
        /\ runs[r].st = "s1"
        /\ runs[r].calls[k].res = "failed"
        /\ ~NegativeKeywordOccurs(runs[r].papers[k], runs[r].cfg[1])
        /\ runs[r].papers[k].is_relevant = "None"
        /\ store[runs[r].papers[k].id] = File(Paper(runs[r].papers[k].id))

\* C4: every retry loop makes at most 3 attempts.  In the stage calls on a
\* referenced paper and in the streaming request, the attempt number stays
\* below 3, a further attempt follows its predecessor without a write to
\* the store, and a terminal failure comes only with the failure of the
\* third attempt and writes nothing.
C4_RetryCeiling ==
    [][\A a \in AskIds :
        LET x == asks[a]
            y == asks'[a]
        IN /\ y.call.att < 3
           /\ y.att < 3
           /\ (/\ x.st \in {"ref_s1", "ref_s2"}
               /\ y.st = x.st
               /\ y.call.pc = x.call.pc
               /\ y.call.qi = x.call.qi
               /\ y.call.att > x.call.att) =>
                    y.call.att = x.call.att + 1 /\ store' = store
           /\ (/\ x.st \in {"ref_s1", "ref_s2"}
               /\ y.call # x.call
               /\ y.call.res = "failed") =>
                    x.call.att + 1 = 3 /\ store' = store
           /\ (x.st = "stream" /\ y.st = "stream" /\ y.att # x.att) =>
                    /\ y.att = x.att + 1
                    /\ y.full_answer = <<>>
                    /\ y.full_thinking = <<>>
                    /\ store' = store
           /\ (x.st = "stream" /\ y.st = "done" /\ y.call.res = "failed") =>
                    x.att + 1 = 3 /\ store' = store
      ]_vars

\* a streamed question was answered on its third attempt and the new entry
\* is stored, after the reference went through both stages
C4_Witness ==
    \E a \in AskIds :
        /\ asks[a].st = "done"
        /\ asks[a].kind = "stream"
        /\ asks[a].call.att = 2
        /\ asks[a].call.res = "ok"
        /\ Len(load_paper(store, 1).qa_pairs) > 0
        /\ paper_exists(store, 2)
        /\ load_paper(store, 2).detailed_summary # <<>>

\* C5: the stored QA list of a record is append-only: every write of a
\* stored record keeps the QA list it replaces as a prefix of the new one.
C5_QAListAppendOnly ==
    [][\A i \in Ids :
        (paper_exists(store, i) /\ paper_exists(store', i)) =>
            IsPrefix(load_paper(store, i).qa_pairs, load_paper(store', i).qa_pairs)
      ]_vars

\* the stage calls in progress on record i: of process_papers runs and of
\* the reference resolution of asks
StageCallsOn(i) ==
    { t \in {"run"} \X RunIds \X Slots :
        /\ t[3] \in DOMAIN runs[t[2]].calls
        /\ runs[t[2]].calls[t[3]].pc \in {"s1_req", "s2_sum", "s2_q"}
        /\ runs[t[2]].papers[t[3]].id = i }
    \cup
    { t \in {"ask"} \X AskIds \X {0} :
        /\ asks[t[2]].st \in {"ref_s1", "ref_s2"}
        /\ asks[t[2]].ref[1].id = i }

\* C6: at any time at most one task has a record of a given id in a stage.
C6_OneTaskPerRecord ==
    \A i \in Ids : Cardinality(StageCallsOn(i)) <= 1

\* C7: in every stored record each QA entry's parent is absent or the
\* position of an earlier entry of the record.
C7_ParentLinksFormForest ==
    \A i \in StoredIds :
        LET qa == load_paper(store, i).qa_pairs IN
        \A k \in 1..Len(qa) :
            \/ qa[k].parent_qa_id = None
            \/ (0 <= qa[k].parent_qa_id[1] /\ qa[k].parent_qa_id[1] < k - 1)

\* C8: the walk over parent links never indexes outside the list (the
\* request does not end in an IndexError) and the turns it collects are in
\* strictly increasing position, so no entry is visited twice and the walk
\* ends.
C8_ParentWalkTerminatesInOrder ==
    \A a \in AskIds :
        /\ ~(asks[a].st = "raised" /\ asks[a].kind = "stream")
        /\ \A j \in 1..(Len(asks[a].conversation_history) - 1) :
                asks[a].conversation_history[j].pos
                    < asks[a].conversation_history[j + 1].pos

\* C9: a stored record with is_relevant = false has an empty detailed
\* summary and no QA entries.
C9_NotRelevantHasNoStage2 ==
    \A i \in StoredIds :
        load_paper(store, i).is_relevant = "False" =>
            /\ load_paper(store, i).detailed_summary = <<>>
            /\ load_paper(store, i).qa_pairs = <<>>

\* C10: every stored record has a relevance_score within [0, 10].
C10_ScoreWithinRange ==
    \A i \in StoredIds :
        /\ 0 <= load_paper(store, i).relevance_score
        /\ load_paper(store, i).relevance_score <= 10

\* the stage2_qa coroutines of the runs that have a request in flight
Stage2Requests ==
    { rk \in RunIds \X Slots :
        /\ rk[2] \in DOMAIN runs[rk[1]].calls
        /\ runs[rk[1]].calls[rk[2]].pc \in {"s2_sum", "s2_q"} }

\* C11: within one Deep-Analysis run the summary request, every preset
\* question request and every retry of either carry the same context prefix;
\* from one request of the run to its next only the question may differ.
C11_SamePrefixWithinRun ==
    [][\A rk \in Stage2Requests :
        LET c == runs[rk[1]].calls[rk[2]] IN
        (/\ runs'[rk[1]].st = "s2"
         /\ runs'[rk[1]].calls[rk[2]].pc \in {"s2_sum", "s2_q"})
        => LET c2 == runs'[rk[1]].calls[rk[2]]
               q == stage2_request(c, runs[rk[1]].cfg[1])
               q2 == stage2_request(c2, runs'[rk[1]].cfg[1])
           IN /\ q2.cache_prefix = q.cache_prefix
              /\ q2.cache_prefix = cache_prefix(runs'[rk[1]].papers[rk[2]])
              /\ (c2.pc = c.pc /\ c2.qi = c.qi) => q2 = q
    ]_vars

\* a retry of the second preset question is in flight
C11_Witness ==
    \E rk \in Stage2Requests :
        LET c == runs[rk[1]].calls[rk[2]] IN
        /\ c.pc = "s2_q" /\ c.qi = 2 /\ c.att >= 1
        /\ runs[rk[1]].papers[rk[2]].detailed_summary # <<>>

\* a streaming request moved in this step
StreamStep(a) == asks[a].st = "stream" /\ asks'[a] # asks[a]

\* the step ends the generator of a after its stream completed
StreamCompleted(a) ==
    StreamStep(a) /\ asks'[a].st = "done" /\ asks'[a].call.res # "failed"

\* the step ends the generator of a with the last attempt's failure
StreamFailed(a) ==
    StreamStep(a) /\ asks'[a].st = "done" /\ asks'[a].call.res = "failed"

\* the step writes the record of a with one entry after those a loaded
AppendedOne(a) ==
    LET p == asks[a].paper[1] IN
    /\ paper_exists(store', p.id)
    /\ LET q == load_paper(store', p.id) IN
        /\ Len(q.qa_pairs) = Len(p.qa_pairs) + 1
        /\ IsPrefix(p.qa_pairs, q.qa_pairs)
        /\ q = [p EXCEPT !.qa_pairs = q.qa_pairs]
    /\ \A i \in Ids \ {p.id} : store'[i] = store[i]

\* C12 as stated: every stream that completes without final failure
\* appends and persists exactly one entry, every other step of a streaming
\* request persists nothing.
C12_OneEntryPerCompletedStream ==
    [][\A a \in AskIds :
        StreamStep(a) =>
            IF StreamCompleted(a) THEN AppendedOne(a) ELSE store' = store
    ]_vars

\* C12 amended: a stream that completes without final failure and delivered
\* answer or thinking text appends and persists exactly one entry; a final
\* failure, a completed stream that delivered no text and every other step
\* of a streaming request persist nothing.
C12_OneEntryPerNonEmptyStream ==
    [][\A a \in AskIds :
        StreamStep(a) =>
            IF /\ StreamCompleted(a)
               /\ asks[a].full_answer # <<>> \/ asks[a].full_thinking # <<>>
            THEN AppendedOne(a) ELSE store' = store
    ]_vars

\* a streaming request was persisted, and the next one completed after a
\* retry but delivered nothing
C12_Witness ==
    /\ asks[1].st = "done" /\ asks[1].kind = "stream"
    /\ asks[1].call.res = "empty" /\ asks[1].call.att >= 1
    /\ paper_exists(store, 1) /\ Len(load_paper(store, 1).qa_pairs) = 1

\* C13: when the third attempt of a streaming request fails, the generator
\* yields exactly one terminal error event and ends with it, nothing is
\* appended and nothing is saved; no other step yields that event, and a
\* generator that ended takes no further step.
C13_TerminalErrorEndsStream ==
    [][\A a \in AskIds :
        /\ StreamFailed(a) =>
                /\ asks[a].att = max_retries - 1
                /\ asks'[a].emitted = <<FailedNotice>>
                /\ store' = store
        /\ (StreamStep(a) /\ asks[a].att = max_retries - 1
                /\ \E i \in DOMAIN asks'[a].emitted : asks'[a].emitted[i].type = "error")
            => StreamFailed(a)
        /\ (asks'[a] # asks[a]
                /\ \E i \in DOMAIN asks'[a].emitted : asks'[a].emitted[i] = FailedNotice)
            => StreamFailed(a)
        /\ (asks[a].st = "done" /\ asks'[a] # asks[a])
            => ops' = ops + 1 /\ asks'[a].emitted = <<>>
    ]_vars

\* a streaming request ended by the failure of its third attempt, over a
\* record that keeps the entry an earlier request persisted
C13_Witness ==
    \E a \in AskIds :
        /\ asks[a].st = "done" /\ asks[a].kind = "stream"
        /\ asks[a].call.res = "failed" /\ asks[a].call.att = max_retries - 1
        /\ asks[a].emitted = <<FailedNotice>>
        /\ paper_exists(store, 1) /\ Len(load_paper(store, 1).qa_pairs) = 1

\* str.lower().startswith("think:") spelled out on the supplied text
IsThinkQuestion(q) ==
    /\ Len(q) >= 6
    /\ q[1] \in {"t", "T"} /\ q[2] \in {"h", "H"} /\ q[3] \in {"i", "I"}
    /\ q[4] \in {"n", "N"} /\ q[5] \in {"k", "K"} /\ q[6] = ":"

\* C14: the entry a successful streaming request persists holds the question
\* exactly as supplied, is_reasoning true exactly when that text starts with
\* "think:" in any letter case, a thinking trace only when is_reasoning is
\* true, and the supplied parent position.
C14_EntryRecordsRequest ==
    [][\A a \in AskIds :
        (StreamCompleted(a) /\ store' # store) =>
            LET x == asks[a]
                qa == load_paper(store', x.paper[1].id).qa_pairs
                e == qa[Len(qa)]
            IN /\ x.original_question \in Questions \cup RefQuestions
               /\ e.question = x.original_question
               /\ e.is_reasoning = IsThinkQuestion(x.original_question)
               /\ e.thinking # None => e.is_reasoning
               /\ e.is_reasoning => e.thinking = Some(x.full_thinking)
               /\ e.answer = x.full_answer
               /\ e.parent_qa_id = x.parent_qa_id
    ]_vars

\* a persisted entry of a "ThinK: " question asked as a follow-up of entry 0
C14_Witness ==
    /\ paper_exists(store, 1)
    /\ Len(load_paper(store, 1).qa_pairs) = 2
    /\ LET e == load_paper(store, 1).qa_pairs[2] IN
        /\ e.question = <<"T", "h", "i", "n", "K", ":", " ", "w">>
        /\ e.is_reasoning /\ e.thinking # None /\ e.parent_qa_id = Some(0)

\* the requests that have sent, or are about to send, their model request
Asking == { a \in AskIds : asks[a].st \in {"walk", "stream", "req"} }

\* C15 as stated: the synchronous and the streaming variant treat a question
\* alike: one that starts with "think:" goes to the reasoning model without
\* the marker and is persisted with is_reasoning true, whichever variant
\* serves it.
C15_SyncMatchesStream ==
    [][\A a \in AskIds :
        /\ (asks'[a].st \in {"walk", "stream", "req"}
                /\ IsThinkQuestion(asks'[a].original_question)) =>
                /\ ask_request(asks'[a]).model = "deepseek-reasoner"
                /\ ask_request(asks'[a]).question
                        = Strip(SubSeq(asks'[a].original_question, 7,
                                       Len(asks'[a].original_question)))
        /\ (a \in Asking /\ asks'[a].st = "done" /\ store' # store) =>
                LET qa == load_paper(store', asks[a].paper[1].id).qa_pairs IN
                qa[Len(qa)].is_reasoning = IsThinkQuestion(asks[a].original_question)
    ]_vars

\* the ids a question names, and those of them the store holds
Cited(q) == { RefOf[q[i]] : i \in { j \in DOMAIN q : q[j] \in DOMAIN RefOf } }
Resolved(q, st) == { i \in Cited(q) : paper_exists(st, i) }

Count(t, q) == Cardinality({ i \in DOMAIN q : q[i] = t })

\* the text of a paper as the source delivers it
ContentOf(i) == IF HtmlContent(i) # <<>> THEN HtmlContent(i) ELSE Abstract(i)

\* the request of the ask x is built from its paper and from the cited
\* papers that were resolved, st being the store
ContextOfResolved(x, st) ==
    LET q == x.original_question
        cur == x.paper[1].id
        rq == ask_request(x)
    IN IF Resolved(q, st) = {}
       THEN /\ rq.cache_prefix = <<"Paper Title: ">> \o Title(cur)
                                    \o <<"Paper Content:">> \o ContentOf(cur)
            /\ rq.question = q
       ELSE /\ StartsWith(rq.cache_prefix,
                    <<"=== CURRENT PAPER ===", "Title: ">> \o Title(cur)
                        \o <<"Content:">> \o ContentOf(cur))
            /\ \A i \in Ids :
                    i \in Resolved(q, st) <=>
                        \E n \in DOMAIN IdxStr :
                            Contains(<<"=== REFERENCE PAPER ", IdxStr[n], " ===", "Title: ">>
                                        \o Title(i) \o <<"Content:">> \o ContentOf(i),
                                     rq.cache_prefix)
            /\ \A t \in DOMAIN RefOf :
                    Count(t, rq.question) =
                        IF RefOf[t] \in Resolved(q, st) THEN 0 ELSE Count(t, q)

\* C16: while the references of a question are resolved the request never
\* ends, whatever fails for a reference; the model request that follows
\* carries the current paper and exactly the references that resolved, and
\* with none resolved the single-paper prefix and the question as posted.
C16_UnresolvedReferencesAreSkipped ==
    [][\A a \in AskIds :
        /\ (asks'[a] # asks[a] /\ asks[a].st \in {"idle", "done", "raised",
                                                    "ref_fetch", "ref_s1", "ref_s2"})
            => asks'[a].st \in {"ref_fetch", "ref_s1", "ref_s2", "walk", "stream", "req"}
        /\ (a \notin Asking /\ asks'[a].st \in {"walk", "stream", "req"})
            => ContextOfResolved(asks'[a], store')
        /\ (a \in Asking /\ asks'[a].st \in {"walk", "stream", "req"}) =>
                /\ asks'[a].paper = asks[a].paper
                /\ asks'[a].question = asks[a].question
                /\ asks'[a].referenced_papers = asks[a].referenced_papers
                /\ Resolved(asks[a].original_question, store')
                        = Resolved(asks[a].original_question, store)
    ]_vars

\* a request is sent for a question that names records 1 and 2 after the
\* fetch of 2 failed
C16_Witness ==
    \E a \in Asking :
        /\ asks[a].original_question = <<"[1]", "[2]", "[2]">>
        /\ ~paper_exists(store, 2)
        /\ Len(asks[a].referenced_papers) = 1

\* positions of the run x whose stage2_qa coroutine exists and has not returned
InFlight(x) ==
    { k \in DOMAIN x.calls : x.calls[k].pc \in {"s2_init", "s2_sum", "s2_q"} }

\* positions of x2 whose stage2_qa coroutine was created in the step from x
Started(x, x2) ==
    { k \in DOMAIN x2.calls :
        /\ x2.calls[k].pc = "s2_init"
        /\ k \in DOMAIN x.calls => x.calls[k].pc # "s2_init" }

\* positions of the papers of x that pass the Stage 2 selection
Qualifying(x) ==
    { k \in DOMAIN x.papers :
        /\ x.papers[k].is_relevant = "True"
        /\ x.papers[k].relevance_score >= x.cfg[1].min_relevance_score_for_stage2 }

\* C17: when the Quick-Filter of a run is over, Deep-Analysis is started for
\* the papers with is_relevant true and a score at or above the threshold,
\* and the run ends at once when there is none; no Deep-Analysis of the run
\* is ever started for a paper outside that selection.
C17_Stage2Selection ==
    [][\A r \in RunIds :
        LET x == runs[r]
            x2 == runs'[r]
        IN /\ (x.st = "s1" /\ x2.st # "s1") =>
                IF Qualifying(x) = {} THEN x2.st \in {"idle", "export"}
                ELSE /\ x2.st = "s2"
                     /\ Range(x2.rel) = Qualifying(x)
                     /\ Len(x2.rel) = Cardinality(Qualifying(x))
                     /\ x2.papers = x.papers
           /\ (x.st = "s2" /\ x2.st = "s2") => x2.rel = x.rel
           /\ Started(x, x2) \subseteq Range(x2.rel)
    ]_vars

\* Deep-Analysis runs for a paper whose score equals the threshold, next to
\* a paper of the same run that was judged relevant below the threshold
C17_Witness ==
    \E r \in RunIds :
        /\ runs[r].st = "s2" /\ Len(runs[r].papers) = 2 /\ Len(runs[r].rel) = 1
        /\ \E k \in InFlight(runs[r]) :
                /\ runs[r].papers[k].relevance_score
                        = runs[r].cfg[1].min_relevance_score_for_stage2
                /\ runs[r].calls[k].pc = "s2_sum"
        /\ \E k \in DOMAIN runs[r].papers :
                /\ runs[r].papers[k].is_relevant = "True"
                /\ runs[r].papers[k].relevance_score
                        < runs[r].cfg[1].min_relevance_score_for_stage2
                /\ runs[r].calls[k].res = "ok"

\* the window of relevant_papers that starts at bi in the run x
Window(x) ==
    { x.rel[j] : j \in { i \in DOMAIN x.rel :
                            x.bi < i /\ i <= x.bi + x.cfg[1].concurrent_papers } }

\* C18: a run never has more than concurrent_papers Deep-Analysis calls in
\* flight; the calls of a batch are started together, as the next
\* concurrent_papers entries of the selection, only when no call of the
\* batch before is in flight; the run returns only when the batches have
\* covered the selection, which holds no paper twice.
C18_BatchesInOrder ==
    [][\A r \in RunIds :
        LET x == runs[r]
            x2 == runs'[r]
        IN /\ x2.st = "s2" =>
                /\ Cardinality(InFlight(x2)) <= x2.cfg[1].concurrent_papers
                /\ InFlight(x2) \subseteq Window(x2)
                /\ \A i, j \in DOMAIN x2.rel : x2.rel[i] = x2.rel[j] => i = j
           /\ Started(x, x2) # {} =>
                /\ Started(x, x2) = Window(x2)
                /\ InFlight(x) = {}
                /\ IF x.st = "s2"
                   THEN x2.bi = x.bi + x.cfg[1].concurrent_papers /\ x2.rel = x.rel
                   ELSE x2.bi = 0
           /\ (x.st = "s2" /\ x2.st = "s2" /\ Started(x, x2) = {}) => x2.bi = x.bi
           /\ (x.st = "s2" /\ x2.st # "s2") =>
                /\ InFlight(x) = {}
                /\ x.bi + x.cfg[1].concurrent_papers >= Len(x.rel)
    ]_vars

\* with concurrent_papers = 1 the second of two selected papers is in
\* Deep-Analysis after the first one's call returned
C18_Witness ==
    \E r \in RunIds :
        /\ runs[r].st = "s2" /\ runs[r].cfg[1].concurrent_papers = 1
        /\ Len(runs[r].rel) = 2 /\ runs[r].bi = 1
        /\ runs[r].calls[runs[r].rel[1]].pc = "ret"
        /\ runs[r].calls[runs[r].rel[2]].pc = "s2_q"

\* C19: the step in which the Quick-Filter or the Deep-Analysis of one
\* paper fails for good leaves the run going and every other paper of the
\* run as it was; the Quick-Filter phase ends only when every paper's call
\* returned, the run only when every selected paper's call returned; and a
\* call that succeeded wrote its paper to the store.
C19_FailureIsIsolated ==
    [][\A r \in RunIds :
        LET x == runs[r]
            x2 == runs'[r]
        IN /\ \A k \in DOMAIN x.calls :
                (/\ x.calls[k].pc \in {"s1_req", "s2_sum", "s2_q"}
                 /\ k \in DOMAIN x2.calls
                 /\ x2.calls[k].pc = "ret") =>
                    /\ x2.st = x.st /\ x2.rel = x.rel /\ x2.bi = x.bi
                    /\ \A j \in DOMAIN x.calls \ {k} :
                            x2.calls[j] = x.calls[j] /\ x2.papers[j] = x.papers[j]
                    /\ IF x2.calls[k].res = "failed" THEN store' = store
                       ELSE store' = save_paper(store, x2.papers[k])
           /\ (x.st = "s1" /\ x2.st # "s1") =>
                \A k \in DOMAIN x.calls : x.calls[k].pc = "ret"
           /\ (x.st = "s2" /\ x2.st # "s2") =>
                /\ \A k \in Range(x.rel) : x.calls[k].pc = "ret"
                /\ \A j \in DOMAIN x.rel : j <= x.bi + x.cfg[1].concurrent_papers
    ]_vars

\* the Deep-Analysis of the first selected paper failed, that of the second
\* succeeded in the next batch and its record is stored with its summary
C19_Witness ==
    \E r \in RunIds :
        /\ runs[r].st = "s2" /\ runs[r].cfg[1].concurrent_papers = 1
        /\ Len(runs[r].rel) = 2 /\ runs[r].bi = 1
        /\ runs[r].calls[runs[r].rel[1]].res = "failed"
        /\ runs[r].calls[runs[r].rel[2]].res = "ok"
        /\ LET p == runs[r].papers[runs[r].rel[2]] IN
            /\ store[p.id] = File(p)
            /\ p.detailed_summary # <<>> /\ Len(p.qa_pairs) = Len(PresetQuestions)

\* C20: while the summary request of a Deep-Analysis is out no preset
\* question was asked and no entry appended; a preset question is asked
\* only with the summary in place, the questions before it answered, and
\* their entries appended in the configured order; a Deep-Analysis that
\* succeeded appended exactly the configured questions in order.
C20_SummaryThenQuestionsInOrder ==
    \A r \in RunIds : \A k \in DOMAIN runs[r].calls :
        LET c == runs[r].calls[k]
            p == runs[r].papers[k]
            qs == runs[r].cfg[1].preset_questions
            asked == [j \in DOMAIN p.qa_pairs |-> p.qa_pairs[j].question]
        IN /\ c.pc = "s2_sum" => c.qi = 0 /\ asked = <<>> /\ p.detailed_summary = <<>>
           /\ c.pc = "s2_q" =>
                /\ p.detailed_summary # <<>>
                /\ c.qi \in DOMAIN qs
                /\ asked = SubSeq(qs, 1, c.qi - 1)
                /\ stage2_request(c, runs[r].cfg[1]).question = qs[c.qi]
           /\ (c.pc = "ret" /\ c.res = "ok" /\ c.prefix # <<>>) =>
                p.detailed_summary # <<>> /\ asked = qs

\* the second preset question is out, the first one's entry is appended
C20_Witness ==
    \E r \in RunIds : \E k \in DOMAIN runs[r].calls :
        /\ runs[r].calls[k].pc = "s2_q" /\ runs[r].calls[k].qi = 2
        /\ runs[r].calls[k].att = 0
        /\ Len(runs[r].papers[k].qa_pairs) = 1
        /\ runs[r].papers[k].qa_pairs[1].question = PresetQuestions[1]

\* C21: Deep-Analysis of a record whose is_relevant is not true returns at
\* once: the step that runs it sends no request, writes nothing to the
\* store and leaves the record as it was; no summary or question request
\* is ever out for such a record.
C21_NotRelevantIsNoOp ==
    [][\A r \in RunIds :
        LET x == runs[r]
            x2 == runs'[r]
        IN \A k \in DOMAIN x.calls :
            /\ (/\ x.calls[k].pc = "s2_init"
                /\ x.papers[k].is_relevant # "True"
                /\ x2.st = "s2" /\ x2.calls[k] # x.calls[k]) =>
                    /\ x2.calls[k].pc = "ret"
                    /\ x2.papers[k] = x.papers[k]
                    /\ store' = store
            /\ (x2.st = "s2" /\ x.st = "s2" /\ x2.calls[k].pc \in {"s2_sum", "s2_q"})
                => x2.papers[k].is_relevant = "True"
    ]_vars

\* Deep-Analysis returned for a record that was never judged
C21_Witness ==
    \E r \in RunIds : \E k \in DOMAIN runs[r].calls :
        /\ runs[r].st = "s2"
        /\ runs[r].calls[k].pc = "ret" /\ runs[r].calls[k].res = "skipped"
        /\ runs[r].papers[k] = Paper(runs[r].papers[k].id)

C23_ConfigWithinBounds ==
    /\ config.fetch_interval >= 60
    /\ config.max_papers_per_fetch \in 1..500
    /\ config.temperature \in 0..20
    /\ config.max_tokens \in 100..8000
    /\ config.concurrent_papers \in 1..50
    /\ config.min_relevance_score_for_stage2 \in 0..10

\* the stage call of record i has returned after its last attempt failed
Exhausted(i, stage) ==
    \E r \in RunIds : \E k \in DOMAIN runs[r].calls :
        /\ runs[r].st = stage
        /\ runs[r].papers[k].id = i
        /\ runs[r].calls[k].pc = "ret"
        /\ runs[r].calls[k].res = "failed"

\* C24: a record whose Quick-Filter failed terminally is eventually stored
\* with a judgment, and a record whose Deep-Analysis failed terminally is
\* eventually stored with its detailed summary: the running service picks
\* the record up again and, the model dependency answering, persists the
\* stage result.
C24_FailedRecordIsRetried ==
    \A i \in Ids :
        /\ Exhausted(i, "s1")
                ~> (paper_exists(store, i) /\ load_paper(store, i).is_relevant # "None")
        /\ Exhausted(i, "s2")
                ~> (paper_exists(store, i)
                    /\ ~IsBlank(load_paper(store, i).detailed_summary))

\* the step ends the streaming request in slot a
StreamCloses(a) ==
    /\ asks[a].st \notin {"idle", "done", "raised"}
    /\ asks'[a].st \in {"done", "raised"}
    /\ asks'[a].kind = "stream"

\* C25: when the response of an askStream request ends, the last event it
\* delivered is the completion marker, and it delivered no other one: after
\* a successful stream, after the terminal error event, and when the
\* analyzer raised.
C25_StreamEndsWithDoneMarker ==
    [][\A a \in AskIds :
        StreamCloses(a) =>
            /\ asks'[a].closing = <<DoneEvent>>
            /\ \A k \in DOMAIN asks'[a].emitted : asks'[a].emitted[k] # DoneEvent]_vars

\* the Paper objects the requests in progress hold, the stored records as
\* load_paper returns them, and records in every stage of the pipeline
LiveRecords ==
    { asks[a].paper[1] : a \in { b \in AskIds : asks[b].paper # None } }
    \cup { load_paper(store, i) : i \in StoredIds }
    \cup InputRecords

PassedStage1(p, cfg) ==
    /\ p.is_relevant = "True"
    /\ p.relevance_score >= cfg.min_relevance_score_for_stage2

\* C27: whenever a Deep-Analysis request (the summary or a preset question)
\* is out for a record, in a process_papers run or for a reference of a
\* question, the record is relevant with a score at or above the threshold
\* of the config the stage was given.
C27_Stage2OnlyAboveThreshold ==
    /\ \A r \in RunIds : \A k \in DOMAIN runs[r].calls :
            runs[r].calls[k].pc \in {"s2_sum", "s2_q"}
                => PassedStage1(runs[r].papers[k], runs[r].cfg[1])
    /\ \A a \in AskIds :
            (asks[a].st = "ref_s2" /\ asks[a].call.pc \in {"s2_sum", "s2_q"})
                => PassedStage1(asks[a].ref[1], asks[a].cfg[1])

\* C28: while a run is in its Quick-Filter stage, the stage1_filter task of
\* every input record has been created (each is running or has returned,
\* whatever concurrent_papers says) and the run has no Deep-Analysis call;
\* the step that creates the first Deep-Analysis calls of such a run is
\* taken when every Quick-Filter task has returned.
C28_FanOutThenFanIn ==
    [][\A r \in RunIds :
        /\ runs'[r].st = "s1" =>
                \A k \in 1..Len(runs'[r].papers) :
                    runs'[r].calls[k].pc \in {"s1_init", "s1_req", "ret"}
        /\ (/\ runs[r].st = "s1"
            /\ \E k \in DOMAIN runs'[r].calls :
                    runs'[r].calls[k].pc \in {"s2_init", "s2_sum", "s2_q"})
                => \A k \in DOMAIN runs[r].calls : runs[r].calls[k].pc = "ret"]_vars

\* with concurrent_papers = 1, the Quick-Filter requests of two records are
\* out at the same time
C28_Witness ==
    \E r \in RunIds :
        /\ runs[r].st = "s1"
        /\ runs[r].cfg[1].concurrent_papers = 1
        /\ Len(runs[r].papers) = 2
        /\ \A k \in 1..2 : runs[r].calls[k].pc = "s1_req"

\* the step is a failed attempt of a that is followed by another attempt
StreamRetried(a) ==
    StreamStep(a) /\ asks'[a].st = "stream" /\ asks'[a].att # asks[a].att

\* the error events among those the step of a yielded
ErrorEvents(a) ==
    { i \in DOMAIN asks'[a].emitted : asks'[a].emitted[i].type = "error" }

\* C29: a failed attempt of a streaming request yields one error event and
\* nothing else; when another attempt follows, the event is the transient
\* notice, the attempt number goes up by one and both accumulators are
\* empty again; no other step yields an error event; an attempt holds
\* exactly the deltas it received; and the entry that is persisted carries
\* the accumulators of the attempt that completed.
C29_RetryRestartsAccumulation ==
    [][\A a \in AskIds :
        /\ StreamRetried(a) =>
                /\ asks'[a].att = asks[a].att + 1
                /\ asks'[a].emitted = <<RetryNotice>>
                /\ asks'[a].full_answer = <<>>
                /\ asks'[a].full_thinking = <<>>
                /\ store' = store
        /\ StreamFailed(a) => asks'[a].emitted = <<FailedNotice>>
        /\ (StreamStep(a) /\ ErrorEvents(a) # {})
                => (StreamRetried(a) \/ StreamFailed(a))
        /\ asks'[a].st = "stream" =>
                Len(asks'[a].full_answer) + Len(asks'[a].full_thinking) = asks'[a].chunks
        /\ (StreamCompleted(a) /\ asks'[a].call.res = "ok") =>
                LET qa == load_paper(store', asks[a].paper[1].id).qa_pairs IN
                /\ qa # <<>>
                /\ qa[Len(qa)].answer = asks[a].full_answer
                /\ qa[Len(qa)].thinking = IF asks[a].is_reasoning
                                          THEN Some(asks[a].full_thinking) ELSE None
                /\ Len(asks[a].full_answer) + Len(asks[a].full_thinking) = asks[a].chunks
    ]_vars

\* a streaming request completed on its second attempt and its answer, one
\* delta long, is the last entry of the stored record
C29_Witness ==
    \E a \in AskIds : \E i \in StoredIds :
        /\ asks[a].st = "done"
        /\ asks[a].kind = "stream"
        /\ asks[a].call.res = "ok"
        /\ asks[a].call.att = 1
        /\ LET qa == load_paper(store, i).qa_pairs IN
            /\ Len(qa) = 1
            /\ qa[1].answer = <<"c">>

\* the step is the re-filter sweep started for cfg
Swept(cfg) == cfg \in rechecks /\ rechecks' = rechecks \ {cfg}

\* C30: the re-filter sweep leaves the file of a record as it is unless the
\* record was relevant with a score at or above the threshold and matches a
\* negative keyword; the record it saves in that case is not relevant and
\* differs from the one it loaded in is_relevant, relevance_score,
\* extracted_keywords and one_line_summary only.  The sweep touches nothing
\* else.
C30_SweepFrame ==
    [][\A cfg \in rechecks :
        Swept(cfg) =>
            /\ UNCHANGED <<config, runs, asks, fetches, boot, ops>>
            /\ \A i \in Ids :
                \/ store'[i] = store[i]
                \/ /\ paper_exists(store, i) /\ paper_exists(store', i)
                   /\ LET p == load_paper(store, i)
                          q == load_paper(store', i)
                      IN /\ p.is_relevant = "True"
                         /\ p.relevance_score >= cfg.min_relevance_score_for_stage2
                         /\ NegativeKeywordOccurs(p, cfg)
                         /\ q.is_relevant = "False"
                         /\ [q EXCEPT !.is_relevant = p.is_relevant,
                                      !.relevance_score = p.relevance_score,
                                      !.extracted_keywords = p.extracted_keywords,
                                      !.one_line_summary = p.one_line_summary] = p
    ]_vars

\* the sweep has demoted a record that Quick-Filter had judged relevant: the
\* negative-keyword tag precedes the keywords the judgment had extracted
C30_Witness ==
    /\ rechecks = {}
    /\ \E i \in StoredIds :
        LET p == load_paper(store, i) IN
        /\ p.is_relevant = "False"
        /\ p.relevance_score = NegScore
        /\ Len(p.extracted_keywords) = 2
        /\ p.extracted_keywords[2] = <<"k", "w">>

\* C31: the record the re-filter sweep saves is the record the Quick-Filter
\* fast path produces from the record the sweep loaded, under the config
\* the sweep was started with: not relevant, score 1, the tag of the first
\* matching keyword in configured order as the only extracted keyword, and
\* the canned summary naming that keyword.
C31_SweepDemotesAsFastPath ==
    [][\A cfg \in rechecks :
        Swept(cfg) =>
            \A i \in Ids :
                (store'[i] # store[i] /\ paper_exists(store, i)) =>
                    load_paper(store', i) = stage1_begin(load_paper(store, i), cfg).paper
    ]_vars

\* the stored records the maintenance sweep has to analyse
PendingIds == { i \in StoredIds : NeedsStage2(load_paper(store, i), config) }

\* C32: the step in which the maintenance sweep runs starts no run when no
\* stored record is relevant, at or above the threshold and without a
\* summary; otherwise it starts one run over exactly those records, each
\* once and as stored, with every record selected for Deep-Analysis.  A run
\* the sweep started never holds a Quick-Filter call.
C32_SweepFeedsPendingOnly ==
    [][/\ (boot /\ ~boot') =>
            /\ store' = store
            /\ PendingIds = {} => runs' = runs
            /\ PendingIds # {} =>
                \E r \in RunIds :
                    /\ runs[r].st = "idle"
                    /\ \A r2 \in RunIds \ {r} : runs'[r2] = runs[r2]
                    /\ runs'[r].st = "s2"
                    /\ Len(runs'[r].papers) = Cardinality(PendingIds)
                    /\ \A i \in PendingIds : \E k \in 1..Len(runs'[r].papers) :
                            runs'[r].papers[k] = load_paper(store, i)
                    /\ runs'[r].rel = [k \in 1..Len(runs'[r].papers) |-> k]
       /\ \A r \in RunIds :
            runs'[r].and_then = "export" =>
                /\ runs'[r].st # "s1"
                /\ \A k \in DOMAIN runs'[r].calls :
                        runs'[r].calls[k].pc \notin {"s1_init", "s1_req"}
    ]_vars

\* the sweep analyses one stored record while another stored record, judged
\* relevant below the threshold, is left out
C32_Witness ==
    \E r \in RunIds : \E i \in StoredIds :
        /\ ~boot
        /\ runs[r].and_then = "export"
        /\ runs[r].st = "s2"
        /\ Len(runs[r].papers) = 1
        /\ runs[r].papers[1].id # i
        /\ runs[r].calls[1].pc = "s2_sum"
        /\ load_paper(store, i).is_relevant = "True"
        /\ load_paper(store, i).relevance_score < config.min_relevance_score_for_stage2
        /\ IsBlank(load_paper(store, i).detailed_summary)

\* record i is stored, relevant, at or above a threshold that is not the
\* one the service started with, and has no summary, after the startup
\* sweep has run
PendingAfterChange(i) ==
    /\ ~boot
    /\ config.min_relevance_score_for_stage2 # DefaultConfig.min_relevance_score_for_stage2
    /\ paper_exists(store, i)
    /\ NeedsStage2(load_paper(store, i), config)

\* a Deep-Analysis call for record i is in a run
FedToStage2(i) ==
    \E r \in RunIds : \E k \in DOMAIN runs[r].calls :
        /\ runs[r].papers[k].id = i
        /\ runs[r].calls[k].pc \in {"s2_init", "s2_sum", "s2_q"}

\* C33: a stored record that is pending Deep-Analysis under a changed
\* threshold is eventually fed through Deep-Analysis by the running
\* service (or stops being pending).
C33_ThresholdChangeReevaluates ==
    \A i \in Ids :
        PendingAfterChange(i) ~> (FedToStage2(i) \/ ~PendingAfterChange(i))

\* the entries of qa from the root of the chain of position i (counted from
\* 0) down to that entry, following the parent links as positions
RECURSIVE ChainTo(_, _, _)
ChainTo(qa, i, fuel) ==
    IF fuel = 0 \/ i < 0 \/ i >= Len(qa) THEN <<>>
    ELSE (IF qa[i + 1].parent_qa_id = None THEN <<>>
          ELSE ChainTo(qa, qa[i + 1].parent_qa_id[1], fuel - 1)) \o <<qa[i + 1]>>

\* a user turn with the question and an assistant turn with the answer for
\* each entry of chain
RECURSIVE TurnsOf(_)
TurnsOf(chain) ==
    IF chain = <<>> THEN <<>>
    ELSE <<Message("user", <<"Question: ">> \o Head(chain).question),
           Message("assistant", Head(chain).answer)>> \o TurnsOf(Tail(chain))

\* C34: the messages of the request of a streaming ask are the system
\* prompt, then, when the parent position is a position of the record's QA
\* list, one user turn (the question) and one assistant turn (the answer,
\* without the thinking trace) for each entry of the chain from the root
\* down to the parent, oldest first, then the current question; without a
\* parent position there is no history turn.
C34_HistoryOldestFirst ==
    \A a \in AskIds :
        (asks[a].kind = "stream" /\ asks[a].st = "stream") =>
            LET x == asks[a]
                qa == x.paper[1].qa_pairs
                msgs == stream_messages(x)
                turns == IF x.parent_qa_id # None
                            /\ 0 <= x.parent_qa_id[1] /\ x.parent_qa_id[1] < Len(qa)
                         THEN TurnsOf(ChainTo(qa, x.parent_qa_id[1], Len(qa)))
                         ELSE <<>>
            IN /\ Head(msgs).role = "system"
               /\ SubSeq(msgs, 2, Len(msgs) - 1) = turns
               /\ msgs[Len(msgs)] =
                    Message("user", ask_request(x).cache_prefix \o <<"Question: ">>
                                        \o ask_request(x).question)
               /\ x.parent_qa_id = None => Len(msgs) = 2

\* the request of a follow-up to a follow-up: two entries make the chain,
\* the younger one has a thinking trace
C34_Witness ==
    \E a \in AskIds :
        /\ asks[a].kind = "stream" /\ asks[a].st = "stream"
        /\ Len(stream_messages(asks[a])) = 6
        /\ LET qa == asks[a].paper[1].qa_pairs IN
            /\ asks[a].parent_qa_id = Some(Len(qa) - 1)
            /\ qa[Len(qa)].thinking # None
            /\ qa[Len(qa)].thinking[1] # <<>>
            /\ qa[Len(qa)].parent_qa_id = Some(1)

\* the entries of a record's QA list that answer the question q
EntriesFor(p, q) == { k \in 1..Len(p.qa_pairs) : p.qa_pairs[k].question = q }

\* C35: whatever runs, sweeps and searches were made on a record, the stored
\* record holds at most one Deep-Analysis entry for each preset question
C35_OneEntryPerPresetQuestion ==
    \A i \in Ids : paper_exists(store, i) =>
        \A k \in 1..Len(config.preset_questions) :
            Cardinality(EntriesFor(load_paper(store, i), config.preset_questions[k])) <= 1

\* C36: when a streaming request completes and persists its entry, the
\* content events the consumer received during the whole call, joined in
\* order, are the persisted answer, and the thinking events are the persisted
\* thinking trace, whatever earlier attempts delivered before they failed
C36_DeliveredEqualsPersisted ==
    [][\A a \in AskIds :
        (StreamCompleted(a) /\ asks'[a].call.res = "ok") =>
            LET qa == load_paper(store', asks[a].paper[1].id).qa_pairs
                e == qa[Len(qa)]
            IN /\ e.answer = asks[a].delivered_answer
               /\ asks[a].delivered_thinking
                    = IF e.thinking = None THEN <<>> ELSE e.thinking[1]
    ]_vars

\* the user flags of the stored record i
Flags(st, i) == <<load_paper(st, i).is_hidden, load_paper(st, i).is_starred>>

\* the step belongs to a pipeline run, a sweep or an ask, not to one of the
\* flag endpoints, which leave every task as it is
PipelineStep == runs' # runs \/ asks' # asks \/ rechecks' # rechecks

\* C37: no save made by Quick-Filter, Deep-Analysis, a sweep or an ask
\* changes the hidden or starred flag a stored record carries, also when the
\* task loaded the record before the user changed the flag
C37_PipelineKeepsUserFlags ==
    [][\A i \in Ids :
        (PipelineStep /\ paper_exists(store, i) /\ paper_exists(store', i))
            => Flags(store', i) = Flags(store, i)
    ]_vars

\* the step is the export, upload and cleanup that follows a run
Exported(r) == runs[r].st = "export" /\ runs'[r].st = "idle"

\* fetch_latest over a date window that holds paper i takes it as a new paper
FetchedAgain(st, i) == FetchScan([IdleFetch EXCEPT !.todo = <<i>>], st).st = "html"

\* C38: a paper the fetch loop stored and the pipeline judged is skipped by
\* every later fetch cycle over the same date window, also once the export,
\* upload and cleanup step that follows the run has been made
C38_ProcessedPaperIsSkipped ==
    [][\A r \in RunIds : \A i \in Ids :
        (/\ paper_exists(store, i)
         /\ load_paper(store, i).is_relevant # "None"
         /\ ~FetchedAgain(store, i)
         /\ Exported(r))
            => ~FetchedAgain(store', i)
    ]_vars

\* C39: a Paper object whose Deep-Analysis call failed terminally shows no
\* trace of the call: its detailed summary and its QA list are those of the
\* stored record the run was given, which a failed call never writes
C39_FailedCallLeavesObject ==
    \A r \in RunIds : \A k \in DOMAIN runs[r].calls :
        (/\ runs[r].st = "s2"
         /\ runs[r].calls[k].res = "failed"
         /\ paper_exists(store, runs[r].papers[k].id))
            => LET p == runs[r].papers[k]
                   q == load_paper(store, p.id)
               IN /\ p.detailed_summary = q.detailed_summary
                  /\ p.qa_pairs = q.qa_pairs

\* C40: the references an ask has resolved name each paper at most once and
\* never the record the question is asked about, so the assembled context
\* holds each referenced paper once, however often the question cites it
C40_ReferencesAreDistinct ==
    \A a \in AskIds :
        LET refs == asks[a].referenced_papers IN
        /\ \A j, k \in DOMAIN refs : refs[j].id = refs[k].id => j = k
        /\ \A k \in DOMAIN refs : refs[k].id # asks[a].paper[1].id

====
